---- MODULE Spec2Model ----
(***************************************************************************)
(* Model of Veyon's RFB (VNC) client protocol engine, VncClientProtocol.   *)
(* The engine is driven by an event loop that calls read() during the      *)
(* handshake and receiveMessage() once the connection is running; both     *)
(* work on a QTcpSocket whose receive buffer fills in chunks of arbitrary  *)
(* size.  Bytes are the integers 0..255, multi-byte fields are big-endian. *)
(***************************************************************************)
EXTENDS Integers, Sequences, FiniteSets, TLC

VARIABLES
    m_state,              \* VncClientProtocol::m_state
    m_vncPassword,        \* password bytes given to the constructor
    m_pixelFormat,        \* the 16 bytes of rfbPixelFormat
    m_framebufferWidth,
    m_framebufferHeight,
    m_serverInitMessage,  \* raw bytes of the consumed server-init message
    m_lastMessage,        \* raw bytes handed to readMessage() last
    m_lastUpdatedRect,    \* QRect as [x, y, w, h]
    sockIn,               \* m_socket: bytes received and not yet read
    sockOut,              \* m_socket: every byte written so far, in order
    sockOpen,             \* m_socket: FALSE once close() was called
    writable,             \* m_socket: FALSE once the peer has disconnected
    consumed,             \* m_socket: number of bytes taken by read() calls
    pending,              \* server bytes sent and not yet arrived
    scn,                  \* the server's script for this connection
    sent,                 \* the Running-state messages the server has sent
    cmds,                 \* number of outbound commands the owner has issued
    op,                   \* the operation called last
    ret,                  \* and the value it returned
    visible,              \* MainWindow: TRUE while the console's window is open
    win32,                \* MainWindow: built with ITALC_BUILD_WIN32
    m_configChanged,      \* MainWindow::m_configChanged
    buttonBox,            \* MainWindow: ui->buttonBox is enabled
    widgets,              \* MainWindow: the values the property widgets show
    config,               \* ItalcCore::config, the configuration being edited
    localBackend,         \* the configuration stored on this computer
    slot,                 \* MainWindow: the slot or handler called last
    outcome,              \* what that call came to
    answer                \* the user's answer to the question it asked

vars == <<m_state, m_vncPassword, m_pixelFormat, m_framebufferWidth,
          m_framebufferHeight, m_serverInitMessage, m_lastMessage,
          m_lastUpdatedRect, sockIn, sockOut, sockOpen, writable, consumed,
          pending, scn, sent, cmds, op, ret>>

\* the management console, a program of its own (imc)
console == <<visible, win32, m_configChanged, buttonBox, widgets, config,
             localBackend, slot, outcome, answer>>

(***************************************************************************)
(* Bounds of the model.                                                    *)
(***************************************************************************)
\* Running-state messages the server sends on one connection
MaxMsgs == 2
\* largest chunk the transport delivers short of "everything in flight"
MaxChunk == 3
\* VncClientProtocol::MaximumMessageSize, scaled down so that the receive
\* buffer of the model can exceed it
MaximumMessageSize == 40
\* outbound commands the owner issues on one connection
MaxCmds == 1
\* MAX_ENCODINGS, the capacity of the encoding array of setEncodings(),
\* scaled down
MAX_ENCODINGS == 3

(***************************************************************************)
(* Wire constants (rfb/rfbproto.h) as used by VncClientProtocol.cpp.       *)
(***************************************************************************)
sz_rfbProtocolVersionMsg == 12
CHALLENGESIZE == 16
KeyLength == 8
sz_rfbClientInitMsg == 1
rfbSetPixelFormat == 0
sz_rfbSetPixelFormatMsg == 20
rfbSetEncodings == 2
sz_rfbSetEncodingsMsg == 4
rfbFramebufferUpdateRequest == 3
sz_rfbFramebufferUpdateRequestMsg == 10
sz_rfbServerInitMsg == 24
sz_rfbPixelFormat == 16
MaxNameLength == 255
rfbVncAuthOK == 0
rfbSecTypeInvalid == 0
rfbSecTypeNone == 1
rfbSecTypeVncAuth == 2

rfbFramebufferUpdate == 0
rfbSetColourMapEntries == 1
rfbBell == 2
rfbServerCutText == 3
rfbResizeFrameBuffer == 4
rfbXvp == 250

sz_rfbFramebufferUpdateMsg == 4
sz_rfbFramebufferUpdateRectHeader == 12
sz_rfbSetColourMapEntriesMsg == 6
sz_rfbBellMsg == 1
sz_rfbServerCutTextMsg == 8
sz_rfbResizeFrameBufferMsg == 6
sz_rfbXvpMsg == 4

sz_rfbXCursorColors == 6
sz_rfbSupportedMessages == 64
sz_rfbCopyRect == 4
sz_rfbRREHeader == 4
sz_rfbRectangle == 8
sz_rfbZlibHeader == 4
sz_rfbZRLEHeader == 4

rfbEncodingRaw == 0
rfbEncodingCopyRect == 1
rfbEncodingRRE == 2
rfbEncodingCoRRE == 4
rfbEncodingHextile == 5
rfbEncodingZlib == 6
rfbEncodingUltra == 9
rfbEncodingZRLE == 16
rfbEncodingZYWRLE == 17
\* 0xFFFF0009, 0xFFFFFF10, 0xFFFFFF11, 0xFFFFFF18, 0xFFFFFF20, 0xFFFFFF21,
\* 0xFFFE0000 .. 0xFFFE0003 as 32-bit patterns
rfbEncodingUltraZip == -65527
rfbEncodingXCursor == -240
rfbEncodingRichCursor == -239
rfbEncodingPointerPos == -232
rfbEncodingLastRect == -224
rfbEncodingNewFBSize == -223
rfbEncodingKeyboardLedState == -131072
rfbEncodingSupportedMessages == -131071
rfbEncodingSupportedEncodings == -131070
rfbEncodingServerIdentity == -131069

rfbHextileRaw == 1
rfbHextileBackgroundSpecified == 2
rfbHextileForegroundSpecified == 4
rfbHextileAnySubrects == 8
rfbHextileSubrectsColoured == 16

(***************************************************************************)
(* Integer and byte helpers.                                               *)
(***************************************************************************)
Min(a, b) == IF a < b THEN a ELSE b
Max(a, b) == IF a > b THEN a ELSE b

(***************************************************************************)
(* 32-bit values.  A uint32_t, uint or int of the code is held as its bit  *)
(* pattern read as a two's-complement int: an unsigned value of 2^31 or    *)
(* more is the negative number with the same 32 bits, and the cast         *)
(* static_cast<int>( u ) is the identity.  Products and sums are formed    *)
(* from 16-bit limbs so that they wrap at 2^32 as the code's do.           *)
(***************************************************************************)
Lo16(u) == u % 65536
Hi16(u) == (u \div 65536) % 65536
FromLimbs(hi, lo) == (IF hi >= 32768 THEN hi - 65536 ELSE hi) * 65536 + lo

\* low and high limb of the product of two limbs
MulLo16(a, c) == (a * (c % 256) + ((a * (c \div 256)) % 256) * 256) % 65536
MulHi16(a, c) ==
    ((a * (c \div 256)) \div 256)
        + ((a * (c % 256) + ((a * (c \div 256)) % 256) * 256) \div 65536)

\* a * c and a + c modulo 2^32
WrapMul(a, c) ==
    FromLimbs((MulHi16(Lo16(a), Lo16(c)) + MulLo16(Hi16(a), Lo16(c))
                   + MulLo16(Lo16(a), Hi16(c))) % 65536,
              MulLo16(Lo16(a), Lo16(c)))
WrapAdd(a, c) ==
    FromLimbs((Hi16(a) + Hi16(c) + ((Lo16(a) + Lo16(c)) \div 65536)) % 65536,
              (Lo16(a) + Lo16(c)) % 65536)

\* u > n for an unsigned u and a small n >= 0
UGt(u, n) == u < 0 \/ u > n

\* qFromBigEndian on a 2- and a 4-byte field of a byte sequence
BE16(b, i) == b[i] * 256 + b[i + 1]
BE32(b, i) == FromLimbs(BE16(b, i), BE16(b, i + 2))

\* the server's side of the same encoding
Bytes16(n) == <<(n \div 256) % 256, n % 256>>
Bytes32(n) == <<(n \div 16777216) % 256, (n \div 65536) % 256,
                (n \div 256) % 256, n % 256>>

Drop(s, n) == SubSeq(s, n + 1, Len(s))
Fill(n, b) == IF n > 0 THEN [i \in 1..n |-> b] ELSE <<>>

\* bit test: subEncoding & flag, flag a power of two
HasBit(b, flag) == (b \div flag) % 2 = 1

(***************************************************************************)
(* The engine and its socket as one record, so that a handler is an        *)
(* operator from the state before the call to the state after it.  Field   *)
(* ret is the handler's return value.                                      *)
(***************************************************************************)
Cur ==
    [ret |-> FALSE,
     m_state |-> m_state,
     m_pixelFormat |-> m_pixelFormat,
     m_framebufferWidth |-> m_framebufferWidth,
     m_framebufferHeight |-> m_framebufferHeight,
     m_serverInitMessage |-> m_serverInitMessage,
     m_lastMessage |-> m_lastMessage,
     m_lastUpdatedRect |-> m_lastUpdatedRect,
     sockIn |-> sockIn,
     sockOut |-> sockOut,
     sockOpen |-> sockOpen,
     writable |-> writable,
     consumed |-> consumed]

(***************************************************************************)
(* QTcpSocket as the engine uses it.  A closed socket has nothing to read  *)
(* and accepts no write.  A socket whose peer has disconnected still       *)
(* hands out the bytes it has buffered, and write() on it returns -1.      *)
(***************************************************************************)
bytesAvailable(s) == IF s.sockOpen THEN Len(s.sockIn) ELSE 0

\* the bytes peek(n) and read(n) return: at most n, no more than buffered
peek(s, n) == SubSeq(s.sockIn, 1, Min(Max(n, 0), bytesAvailable(s)))

\* the socket after read(n)
read(s, n) ==
    LET k == Len(peek(s, n))
    IN  [s EXCEPT !.sockIn = Drop(@, k), !.consumed = @ + k]

\* the socket after write(bytes)
write(s, bytes) ==
    IF s.sockOpen /\ s.writable THEN [s EXCEPT !.sockOut = @ \o bytes] ELSE s

close(s) == [s EXCEPT !.sockOpen = FALSE]

Return(s, value) == [s EXCEPT !.ret = value]

(***************************************************************************)
(* Cipher primitive (d3des: rfbDesKey, rfbDes), supplied from outside the  *)
(* engine: a keyed, invertible map on 8-byte blocks.                        *)
(***************************************************************************)
rfbDes(key, block) == [i \in 1..KeyLength |-> (block[i] + 3 * key[i] + i) % 256]

\* mutant: a short password repeated to fill the key
vncKeyRepeated(passwd) ==
    [i \in 1..KeyLength |->
        IF Len(passwd) = 0 THEN 0 ELSE passwd[((i - 1) % Len(passwd)) + 1]]

\* key is simply password padded with nulls
vncKey(passwd) ==
    [i \in 1..KeyLength |-> IF i <= Len(passwd) THEN passwd[i] ELSE 0]

vncEncryptBytes(bytes, passwd) ==
    rfbDes(vncKey(passwd), SubSeq(bytes, 1, KeyLength))
        \o rfbDes(vncKey(passwd), SubSeq(bytes, KeyLength + 1, CHALLENGESIZE))

(***************************************************************************)
(* Handshake steps.                                                        *)
(***************************************************************************)
IsDigit(b) == b \in 48..57
ToInt3(p, i) == (p[i] - 48) * 100 + (p[i + 1] - 48) * 10 + (p[i + 2] - 48)

\* QRegularExpression "RFB (\d\d\d)\.(\d\d\d)\n" on the 12 bytes
VersionMatch(p) ==
    /\ Len(p) = sz_rfbProtocolVersionMsg
    /\ p[1] = 82 /\ p[2] = 70 /\ p[3] = 66 /\ p[4] = 32
    /\ IsDigit(p[5]) /\ IsDigit(p[6]) /\ IsDigit(p[7])
    /\ p[8] = 46
    /\ IsDigit(p[9]) /\ IsDigit(p[10]) /\ IsDigit(p[11])
    /\ p[12] = 10

\* mutant: minor version 7 refused
VersionAcceptedAbove7(p) ==
    /\ VersionMatch(p)
    /\ ToInt3(p, 5) = 3
    /\ ~(ToInt3(p, 9) <= 7)

VersionAccepted(p) ==
    /\ VersionMatch(p)
    /\ ToInt3(p, 5) = 3
    /\ ~(ToInt3(p, 9) < 7)

VersionReady(s) == bytesAvailable(s) = sz_rfbProtocolVersionMsg

\* mutant: the version is echoed before it is looked at
readProtocolEchoFirst(s) ==
    IF VersionReady(s)
    THEN LET protocol == peek(s, sz_rfbProtocolVersionMsg)
             s1 == write(read(s, sz_rfbProtocolVersionMsg), protocol)
         IN  IF Len(protocol) # sz_rfbProtocolVersionMsg
             THEN Return(close(s1), FALSE)
             ELSE IF ~VersionAccepted(protocol)
             THEN Return(close(s1), FALSE)
             ELSE Return([s1 EXCEPT !.m_state = "SecurityInit"], TRUE)
    ELSE Return(s, FALSE)

readProtocol(s) ==
    IF VersionReady(s)
    THEN LET protocol == peek(s, sz_rfbProtocolVersionMsg)
             s1 == read(s, sz_rfbProtocolVersionMsg)
         IN  IF Len(protocol) # sz_rfbProtocolVersionMsg
             THEN Return(close(s1), FALSE)
             ELSE IF ~VersionAccepted(protocol)
             THEN Return(close(s1), FALSE)
             ELSE Return([write(s1, protocol) EXCEPT !.m_state = "SecurityInit"], TRUE)
    ELSE Return(s, FALSE)

Contains(list, b) == \E i \in 1..Len(list) : list[i] = b

\* mutant: None preferred to VNC authentication
ChooseSecurityTypeNoneFirst(list) ==
    IF Contains(list, rfbSecTypeNone) THEN rfbSecTypeNone
    ELSE IF Contains(list, rfbSecTypeVncAuth) THEN rfbSecTypeVncAuth
    ELSE rfbSecTypeInvalid

\* the type chosen from the list, rfbSecTypeInvalid when none is supported
ChooseSecurityType(list) ==
    IF Contains(list, rfbSecTypeVncAuth) THEN rfbSecTypeVncAuth
    ELSE IF Contains(list, rfbSecTypeNone) THEN rfbSecTypeNone
    ELSE rfbSecTypeInvalid

receiveSecurityTypes(s) ==
    IF bytesAvailable(s) >= 2
    THEN LET securityTypeCount == peek(s, 1)[1]
             s1 == read(s, 1)
             securityTypeList == peek(s1, securityTypeCount)
             s2 == read(s1, securityTypeCount)
             securityType == ChooseSecurityType(securityTypeList)
         IN  IF securityTypeCount = 0
             THEN Return(close(s1), FALSE)
             ELSE IF Len(securityTypeList) # securityTypeCount
             THEN Return(close(s2), FALSE)
             ELSE IF securityType = rfbSecTypeVncAuth
             THEN Return([write(s2, <<securityType>>) EXCEPT
                             !.m_state = "SecurityChallenge"], TRUE)
             ELSE IF securityType = rfbSecTypeNone
             THEN Return([write(s2, <<securityType>>) EXCEPT
                             !.m_state = "SecurityResult"], TRUE)
             ELSE Return(close(s2), FALSE)
    ELSE Return(s, FALSE)

receiveSecurityChallenge(s) ==
    IF bytesAvailable(s) >= CHALLENGESIZE
    THEN LET challenge == peek(s, CHALLENGESIZE)
             s1 == read(s, CHALLENGESIZE)
             response == vncEncryptBytes(challenge, m_vncPassword)
         IN  Return([write(s1, response) EXCEPT !.m_state = "SecurityResult"], TRUE)
    ELSE Return(s, FALSE)

\* mutant: only the result "failed" (1) is a failure
AuthFailedOnlyOne(authResult) == BE32(authResult, 1) = 1

\* qFromBigEndian( authResult ) != rfbVncAuthOK
AuthFailed(authResult) == BE32(authResult, 1) # rfbVncAuthOK

\* mutant: a failed authentication restarts the handshake
receiveSecurityResultRestart(s) ==
    IF bytesAvailable(s) >= 4
    THEN LET authResult == peek(s, 4)
             s1 == read(s, 4)
         IN  IF AuthFailed(authResult)
             THEN Return([close(s1) EXCEPT !.m_state = "Protocol"], FALSE)
             ELSE Return([write(s1, Fill(sz_rfbClientInitMsg, 1)) EXCEPT
                             !.m_state = "FramebufferInit"], TRUE)
    ELSE Return(s, FALSE)

receiveSecurityResult(s) ==
    IF bytesAvailable(s) >= 4
    THEN LET authResult == peek(s, 4)
             s1 == read(s, 4)
         IN  IF AuthFailed(authResult)
             THEN Return(close(s1), FALSE)
             ELSE Return([write(s1, Fill(sz_rfbClientInitMsg, 1)) EXCEPT
                             !.m_state = "FramebufferInit"], TRUE)
    ELSE Return(s, FALSE)

\* mutant: a name of 256 bytes let through
NameTooLongAbove256(nameLength) == UGt(nameLength, MaxNameLength + 1)

\* the bound on the desktop name
NameTooLong(nameLength) == UGt(nameLength, MaxNameLength)

\* the test made before the server-init message is consumed
NameAvailable(s, nameLength) == Len(peek(s, nameLength)) = nameLength

receiveServerInitMessage(s) ==
    IF bytesAvailable(s) >= sz_rfbServerInitMsg
       /\ Len(peek(s, sz_rfbServerInitMsg)) = sz_rfbServerInitMsg
    THEN LET message == peek(s, sz_rfbServerInitMsg)
             nameLength == BE32(message, 21)
             s1 == [s EXCEPT !.m_pixelFormat = SubSeq(message, 5, 4 + sz_rfbPixelFormat)]
             msg == peek(s1, sz_rfbServerInitMsg + nameLength)
             s2 == read(s1, sz_rfbServerInitMsg + nameLength)
         IN  IF NameTooLong(nameLength)
             THEN Return(close(s), FALSE)
             ELSE IF NameAvailable(s1, nameLength)
             THEN Return([s2 EXCEPT !.m_serverInitMessage = msg,
                                    !.m_framebufferWidth = BE16(msg, 1),
                                    !.m_framebufferHeight = BE16(msg, 3),
                                    !.m_state = "Running"], TRUE)
             ELSE Return(s1, FALSE)
    ELSE Return(s, FALSE)

(***************************************************************************)
(* Running state: the QBuffer over the peeked bytes.  A cursor is the      *)
(* record [data, pos, ok, closed]: pos bytes of data are read, ok is the   *)
(* result of the last size comparison, closed is set when the handler      *)
(* closed the socket.                                                      *)
(***************************************************************************)
Cursor(data) == [data |-> data, pos |-> 0, ok |-> TRUE, closed |-> FALSE]

\* QBuffer::read(n): at most n bytes, none for a negative n
BufGot(b, n) == Min(Max(n, 0), Len(b.data) - b.pos)

\* buffer.read( n ).size() == n, n an int
ReadExact(b, n) ==
    [b EXCEPT !.pos = @ + BufGot(b, n), !.ok = (BufGot(b, n) = n)]

\* QBuffer::read(u) for a uint u: a pattern below 0 is a count of 2^31 or more
BufGotUint(b, u) == IF u < 0 THEN Len(b.data) - b.pos ELSE BufGot(b, u)

\* buffer.read( u ).size() == static_cast<int>( u ), u a uint expression
ReadUint(b, u) ==
    [b EXCEPT !.pos = @ + BufGotUint(b, u), !.ok = (BufGotUint(b, u) = u)]

\* the byte at offset i (from 1) after the cursor
At(b, i) == b.data[b.pos + i]
Rest(b) == Drop(b.data, b.pos)

\* mutant: subrectangles take 4 bytes of coordinates, as in CoRRE
handleRectEncodingRRECompact(b, bytesPerPixel) ==
    LET b1 == ReadExact(b, sz_rfbRREHeader)
        nSubrects == BE32(Rest(b), 1)
        rectDataSize == WrapMul(nSubrects, bytesPerPixel + 4)
        totalDataSize == WrapAdd(bytesPerPixel, rectDataSize)
    IN  IF ~b1.ok THEN b1 ELSE ReadExact(b1, totalDataSize)

handleRectEncodingRRE(b, bytesPerPixel) ==
    LET b1 == ReadExact(b, sz_rfbRREHeader)
        nSubrects == BE32(Rest(b), 1)
        rectDataSize == WrapMul(nSubrects, bytesPerPixel + sz_rfbRectangle)
        totalDataSize == WrapAdd(bytesPerPixel, rectDataSize)
    IN  IF ~b1.ok THEN b1 ELSE ReadExact(b1, totalDataSize)

handleRectEncodingCoRRE(b, bytesPerPixel) ==
    LET b1 == ReadExact(b, sz_rfbRREHeader)
        nSubrects == BE32(Rest(b), 1)
        rectDataSize == WrapMul(nSubrects, bytesPerPixel + 4)
        totalDataSize == WrapAdd(bytesPerPixel, rectDataSize)
    IN  IF ~b1.ok THEN b1 ELSE ReadExact(b1, totalDataSize)

\* mutant: a raw tile also carries the colours its other bits announce
HextileTileRawWithColours(b, w, h, bytesPerPixel) ==
    LET b1 == ReadExact(b, 1)
        subEncoding == At(b, 1)
        b2 == IF HasBit(subEncoding, rfbHextileBackgroundSpecified)
              THEN ReadUint(b1, bytesPerPixel) ELSE b1
        b3 == IF HasBit(subEncoding, rfbHextileForegroundSpecified)
              THEN ReadUint(b2, bytesPerPixel) ELSE b2
        b4 == ReadExact(b3, 1)
        nSubrects == At(b3, 1)
        subRectDataSize ==
            IF HasBit(subEncoding, rfbHextileSubrectsColoured)
            THEN nSubrects * (2 + bytesPerPixel)
            ELSE nSubrects * 2
    IN  IF ~b1.ok THEN b1
        ELSE IF ~b2.ok THEN b2
        ELSE IF ~b3.ok THEN b3
        ELSE IF HasBit(subEncoding, rfbHextileRaw)
        THEN ReadExact(b3, w * h * bytesPerPixel)
        ELSE IF ~HasBit(subEncoding, rfbHextileAnySubrects) THEN b3
        ELSE IF ~b4.ok THEN b4
        ELSE ReadExact(b4, subRectDataSize)

\* one tile of w x h pixels
HextileTile(b, w, h, bytesPerPixel) ==
    LET b1 == ReadExact(b, 1)
        subEncoding == At(b, 1)
        b2 == IF HasBit(subEncoding, rfbHextileBackgroundSpecified)
              THEN ReadUint(b1, bytesPerPixel) ELSE b1
        b3 == IF HasBit(subEncoding, rfbHextileForegroundSpecified)
              THEN ReadUint(b2, bytesPerPixel) ELSE b2
        b4 == ReadExact(b3, 1)
        nSubrects == At(b3, 1)
        subRectDataSize ==
            IF HasBit(subEncoding, rfbHextileSubrectsColoured)
            THEN nSubrects * (2 + bytesPerPixel)
            ELSE nSubrects * 2
    IN  IF ~b1.ok THEN b1
        ELSE IF HasBit(subEncoding, rfbHextileRaw)
        THEN ReadExact(b1, w * h * bytesPerPixel)
        ELSE IF ~b2.ok THEN b2
        ELSE IF ~b3.ok THEN b3
        ELSE IF ~HasBit(subEncoding, rfbHextileAnySubrects) THEN b3
        ELSE IF ~b4.ok THEN b4
        ELSE ReadExact(b4, subRectDataSize)

RECURSIVE HextileLoop(_, _, _, _, _)
\* the two nested for loops, at tile (x, y) of rectangle r
HextileLoop(b, r, bytesPerPixel, x, y) ==
    IF ~(y < r.y + r.h) THEN b
    ELSE IF ~(x < r.x + r.w) THEN HextileLoop(b, r, bytesPerPixel, r.x, y + 16)
    ELSE LET w == IF r.x + r.w - x < 16 THEN r.x + r.w - x ELSE 16
             h == IF r.y + r.h - y < 16 THEN r.y + r.h - y ELSE 16
             b1 == HextileTile(b, w, h, bytesPerPixel)
         IN  IF ~b1.ok THEN b1
             ELSE HextileLoop(b1, r, bytesPerPixel, x + 16, y)

handleRectEncodingHextile(b, rectHeader, bytesPerPixel) ==
    HextileLoop(b, rectHeader, bytesPerPixel, rectHeader.x, rectHeader.y)

handleRectEncodingZlib(b) ==
    LET b1 == ReadExact(b, sz_rfbZlibHeader)
        n == BE32(Rest(b), 1)
    IN  IF ~b1.ok THEN b1 ELSE ReadUint(b1, n)

handleRectEncodingZRLE(b) ==
    LET b1 == ReadExact(b, sz_rfbZRLEHeader)
        n == BE32(Rest(b), 1)
    IN  IF ~b1.ok THEN b1 ELSE ReadUint(b1, n)

\* a && b on two reads
AndThen(b1, n) == IF ~b1.ok THEN b1 ELSE ReadUint(b1, n)

\* payload bytes of a Raw rectangle, as the uint expression of the code
RawSize(width, height, bytesPerPixel) ==
    WrapMul(WrapMul(width, height), bytesPerPixel)

\* mutant: a rectangle of an unknown encoding is taken to have no payload
UnsupportedEncodingSkipped(b) == b

\* mutant: a row of a cursor bitmap has one byte per 8 whole pixels
BytesPerRowRoundedDown(width) == width \div 8

\* bytes of one row of a cursor bitmap
BytesPerRow(width) == (width + 7) \div 8

\* the default branch of handleRect: close the socket, return false
UnsupportedEncoding(b) == [b EXCEPT !.ok = FALSE, !.closed = TRUE]

handleRect(b, rectHeader, pixelFormat) ==
    LET width == rectHeader.w
        height == rectHeader.h
        bytesPerPixel == pixelFormat[1] \div 8
        bytesPerRow == BytesPerRow(width)
        e == rectHeader.encoding
    IN  CASE e = rfbEncodingLastRect -> b
          [] e = rfbEncodingXCursor ->
                IF WrapMul(width, height) = 0 THEN b
                ELSE AndThen(ReadExact(b, sz_rfbXCursorColors), 2 * bytesPerRow * height)
          [] e = rfbEncodingRichCursor ->
                IF WrapMul(width, height) = 0 THEN b
                ELSE AndThen(ReadUint(b, WrapMul(WrapMul(width, height), bytesPerPixel)),
                             bytesPerRow * height)
          [] e = rfbEncodingSupportedMessages -> ReadExact(b, sz_rfbSupportedMessages)
          [] e \in {rfbEncodingSupportedEncodings, rfbEncodingServerIdentity} ->
                ReadUint(b, width)
          [] e = rfbEncodingRaw -> ReadUint(b, RawSize(width, height, bytesPerPixel))
          [] e = rfbEncodingCopyRect -> ReadExact(b, sz_rfbCopyRect)
          [] e = rfbEncodingRRE -> handleRectEncodingRRE(b, bytesPerPixel)
          [] e = rfbEncodingCoRRE -> handleRectEncodingCoRRE(b, bytesPerPixel)
          [] e = rfbEncodingHextile ->
                handleRectEncodingHextile(b, rectHeader, bytesPerPixel)
          [] e \in {rfbEncodingUltra, rfbEncodingUltraZip, rfbEncodingZlib} ->
                handleRectEncodingZlib(b)
          [] e \in {rfbEncodingZRLE, rfbEncodingZYWRLE} -> handleRectEncodingZRLE(b)
          [] e \in {rfbEncodingPointerPos, rfbEncodingKeyboardLedState,
                    rfbEncodingNewFBSize} -> b
          [] OTHER -> UnsupportedEncoding(b)

isPseudoEncoding(header) ==
    header.encoding \in {rfbEncodingSupportedEncodings, rfbEncodingSupportedMessages,
                         rfbEncodingServerIdentity, rfbEncodingPointerPos,
                         rfbEncodingKeyboardLedState, rfbEncodingNewFBSize}

\* the rectangle header at the cursor, fields converted from big-endian
RectHeaderAt(b) ==
    [x |-> BE16(Rest(b), 1), y |-> BE16(Rest(b), 3),
     w |-> BE16(Rest(b), 5), h |-> BE16(Rest(b), 7),
     encoding |-> BE32(Rest(b), 9)]

\* mutant: only the right edge is tested
InFramebufferWidthOnly(rectHeader, fbWidth, fbHeight) ==
    rectHeader.x + rectHeader.w <= fbWidth

\* whether the rectangle is added to updatedRegion
InFramebuffer(rectHeader, fbWidth, fbHeight) ==
    /\ rectHeader.x + rectHeader.w <= fbWidth
    /\ rectHeader.y + rectHeader.h <= fbHeight

\* QRegion += QRect: an empty rectangle adds nothing
RegionAdd(region, r) ==
    IF r.w > 0 /\ r.h > 0
    THEN region \cup {[x |-> r.x, y |-> r.y, w |-> r.w, h |-> r.h]}
    ELSE region

SetMin(S) == CHOOSE a \in S : \A c \in S : a <= c
SetMax(S) == CHOOSE a \in S : \A c \in S : a >= c

NullRect == [x |-> 0, y |-> 0, w |-> 0, h |-> 0]

\* QRegion::boundingRect(), the null QRect for the empty region
boundingRect(region) ==
    IF region = {} THEN NullRect
    ELSE LET x0 == SetMin({r.x : r \in region})
             y0 == SetMin({r.y : r \in region})
             x1 == SetMax({r.x + r.w : r \in region})
             y1 == SetMax({r.y + r.h : r \in region})
         IN  [x |-> x0, y |-> y0, w |-> x1 - x0, h |-> y1 - y0]

\* mutant: the marker is not looked for
IsLastRectNever(rectHeader) == FALSE

\* the test that ends the loop early
IsLastRect(rectHeader) == rectHeader.encoding = rfbEncodingLastRect

RECURSIVE RectLoop(_, _, _, _, _)
\* mutant: a NewFBSize rectangle changes the geometry the later rectangles
\* of the message are tested against
RectLoopResizing(s, b, region, i, nRects) ==
    IF ~(i < nRects) THEN [b |-> b, region |-> region]
    ELSE LET b1 == ReadExact(b, sz_rfbFramebufferUpdateRectHeader)
             rectHeader == RectHeaderAt(b)
             b2 == handleRect(b1, rectHeader, s.m_pixelFormat)
             region2 ==
                 IF ~isPseudoEncoding(rectHeader)
                    /\ InFramebuffer(rectHeader, s.m_framebufferWidth,
                                     s.m_framebufferHeight)
                 THEN RegionAdd(region, rectHeader)
                 ELSE region
             s2 == IF rectHeader.encoding = rfbEncodingNewFBSize
                   THEN [s EXCEPT !.m_framebufferWidth = rectHeader.w,
                                  !.m_framebufferHeight = rectHeader.h]
                   ELSE s
         IN  IF ~b1.ok THEN [b |-> b1, region |-> region]
             ELSE IF IsLastRect(rectHeader)
             THEN [b |-> b1, region |-> region]
             ELSE IF ~b2.ok THEN [b |-> b2, region |-> region]
             ELSE RectLoop(s2, b2, region2, i + 1, nRects)

\* the for loop over the rectangles: [b |-> cursor, region |-> updatedRegion]
RectLoop(s, b, region, i, nRects) ==
    IF ~(i < nRects) THEN [b |-> b, region |-> region]
    ELSE LET b1 == ReadExact(b, sz_rfbFramebufferUpdateRectHeader)
             rectHeader == RectHeaderAt(b)
             b2 == handleRect(b1, rectHeader, s.m_pixelFormat)
             region2 ==
                 IF ~isPseudoEncoding(rectHeader)
                    /\ InFramebuffer(rectHeader, s.m_framebufferWidth,
                                     s.m_framebufferHeight)
                 THEN RegionAdd(region, rectHeader)
                 ELSE region
         IN  IF ~b1.ok THEN [b |-> b1, region |-> region]
             ELSE IF IsLastRect(rectHeader)
             THEN [b |-> b1, region |-> region]
             ELSE IF ~b2.ok THEN [b |-> b2, region |-> region]
             ELSE RectLoop(s, b2, region2, i + 1, nRects)

readMessage(s, size) ==
    IF bytesAvailable(s) < size
    THEN Return(s, FALSE)
    ELSE LET message == peek(s, size)
             s1 == read(s, size)
         IN  IF Len(message) = size
             THEN Return([s1 EXCEPT !.m_lastMessage = message], TRUE)
             ELSE Return(s1, FALSE)

\* mutant: everything buffered is taken as the message
receiveFramebufferUpdateMessageWholeBuffer(s) ==
    LET data == peek(s, bytesAvailable(s))
        b0 == ReadExact(Cursor(data), sz_rfbFramebufferUpdateMsg)
        nRects == BE16(data, 3)
        done == RectLoop(s, b0, {}, 0, nRects)
    IN  IF ~b0.ok THEN Return(s, FALSE)
        ELSE IF done.b.closed THEN Return(close(s), FALSE)
        ELSE IF ~done.b.ok THEN Return(s, FALSE)
        ELSE readMessage([s EXCEPT !.m_lastUpdatedRect = boundingRect(done.region)],
                         bytesAvailable(s))

receiveFramebufferUpdateMessage(s) ==
    LET data == peek(s, bytesAvailable(s))
        b0 == ReadExact(Cursor(data), sz_rfbFramebufferUpdateMsg)
        nRects == BE16(data, 3)
        done == RectLoop(s, b0, {}, 0, nRects)
    IN  IF ~b0.ok THEN Return(s, FALSE)
        ELSE IF done.b.closed THEN Return(close(s), FALSE)
        ELSE IF ~done.b.ok THEN Return(s, FALSE)
        ELSE readMessage([s EXCEPT !.m_lastUpdatedRect = boundingRect(done.region)],
                         done.b.pos)

receiveColourMapEntriesMessage(s) ==
    LET message == peek(s, sz_rfbSetColourMapEntriesMsg)
    IN  IF Len(message) # sz_rfbSetColourMapEntriesMsg
        THEN Return(s, FALSE)
        ELSE readMessage(s, sz_rfbSetColourMapEntriesMsg + BE16(message, 5) * 6)

\* mutant: a bell clears the updated rectangle
receiveBellMessageClearing(s) ==
    readMessage([s EXCEPT !.m_lastUpdatedRect = NullRect], sz_rfbBellMsg)

receiveBellMessage(s) == readMessage(s, sz_rfbBellMsg)

receiveCutTextMessage(s) ==
    LET message == peek(s, sz_rfbServerCutTextMsg)
    IN  IF Len(message) # sz_rfbServerCutTextMsg
        THEN Return(s, FALSE)
        ELSE readMessage(s, WrapAdd(sz_rfbServerCutTextMsg, BE32(message, 5)))

\* mutant: width and height taken from each other's field
receiveResizeFramebufferMessageSwapped(s) ==
    LET s1 == readMessage(s, sz_rfbResizeFrameBufferMsg)
    IN  IF s1.ret
        THEN [s1 EXCEPT !.m_framebufferWidth = BE16(s1.m_lastMessage, 5),
                        !.m_framebufferHeight = BE16(s1.m_lastMessage, 3)]
        ELSE s1

receiveResizeFramebufferMessage(s) ==
    LET s1 == readMessage(s, sz_rfbResizeFrameBufferMsg)
    IN  IF s1.ret
        THEN [s1 EXCEPT !.m_framebufferWidth = BE16(s1.m_lastMessage, 3),
                        !.m_framebufferHeight = BE16(s1.m_lastMessage, 5)]
        ELSE s1

receiveXvpMessage(s) == readMessage(s, sz_rfbXvpMsg)

\* mutant: a buffer of exactly the maximum is refused as well
TooBigAtMaximum(s) == bytesAvailable(s) >= MaximumMessageSize

\* the guard against an over-full receive buffer
TooBig(s) == bytesAvailable(s) > MaximumMessageSize

receiveMessage(s) ==
    IF TooBig(s) THEN Return(close(s), FALSE)
    ELSE IF Len(peek(s, 1)) # 1 THEN Return(s, FALSE)
    ELSE LET messageType == peek(s, 1)[1]
         IN  CASE messageType = rfbFramebufferUpdate ->
                     receiveFramebufferUpdateMessage(s)
               [] messageType = rfbSetColourMapEntries ->
                     receiveColourMapEntriesMessage(s)
               [] messageType = rfbBell -> receiveBellMessage(s)
               [] messageType = rfbServerCutText -> receiveCutTextMessage(s)
               [] messageType = rfbResizeFrameBuffer ->
                     receiveResizeFramebufferMessage(s)
               [] messageType = rfbXvp -> receiveXvpMessage(s)
               [] OTHER -> Return(close(s), FALSE)

\* mutant: read() also parses Running-state messages
readStepAlsoRunning(s) ==
    CASE s.m_state = "Protocol" -> readProtocol(s)
      [] s.m_state = "SecurityInit" -> receiveSecurityTypes(s)
      [] s.m_state = "SecurityChallenge" -> receiveSecurityChallenge(s)
      [] s.m_state = "SecurityResult" -> receiveSecurityResult(s)
      [] s.m_state = "FramebufferInit" -> receiveServerInitMessage(s)
      [] s.m_state = "Running" -> receiveMessage(s)
      [] OTHER -> Return(s, FALSE)

\* VncClientProtocol::read(): one handshake step chosen by m_state
readStep(s) ==
    CASE s.m_state = "Protocol" -> readProtocol(s)
      [] s.m_state = "SecurityInit" -> receiveSecurityTypes(s)
      [] s.m_state = "SecurityChallenge" -> receiveSecurityChallenge(s)
      [] s.m_state = "SecurityResult" -> receiveSecurityResult(s)
      [] s.m_state = "FramebufferInit" -> receiveServerInitMessage(s)
      [] OTHER -> Return(s, FALSE)

(***************************************************************************)
(* Outbound commands.                                                      *)
(***************************************************************************)
\* the 16 bytes of an rfbPixelFormat whose channel maxima are big-endian
PixelFormatWire(f) ==
    <<f.bitsPerPixel, f.depth, f.bigEndian, f.trueColour>>
        \o Bytes16(f.redMax) \o Bytes16(f.greenMax) \o Bytes16(f.blueMax)
        \o <<f.redShift, f.greenShift, f.blueShift, 0, 0, 0>>

\* m_socket->write( data, n ) == n
Written(s) == s.sockOpen /\ s.writable

setPixelFormat(s, pixelFormat) ==
    LET spf == <<rfbSetPixelFormat, 0, 0, 0>> \o PixelFormatWire(pixelFormat)
    IN  Return(write(s, spf), Written(s))

RECURSIVE EncodingBytes(_, _)
\* encs[0 .. nEncodings-1] in memory: each identifier big-endian
EncodingBytes(encodings, i) ==
    IF i > Len(encodings) THEN <<>>
    ELSE Bytes32(encodings[i]) \o EncodingBytes(encodings, i + 1)

\* mutant: a list that fills the array is refused
TooManyEncodingsAtCapacity(encodings) == Len(encodings) >= MAX_ENCODINGS

\* the capacity test of setEncodings()
TooManyEncodings(encodings) == Len(encodings) > MAX_ENCODINGS

setEncodings(s, encodings) ==
    IF TooManyEncodings(encodings) THEN Return(s, FALSE)
    ELSE LET nEncodings == Len(encodings)
             setEncodingsMsg == <<rfbSetEncodings, 0>> \o Bytes16(nEncodings)
             encs == EncodingBytes(encodings, 1)
         IN  Return(write(write(s, setEncodingsMsg), encs), Written(s))

\* mutant: the request names the geometry of the server-init message
requestFramebufferUpdateInitialSize(s, incremental) ==
    LET updateRequest ==
            <<rfbFramebufferUpdateRequest, IF incremental THEN 1 ELSE 0>>
                \o Bytes16(0) \o Bytes16(0)
                \o SubSeq(s.m_serverInitMessage, 1, 4)
    IN  IF Written(s) THEN write(s, updateRequest) ELSE close(s)

requestFramebufferUpdate(s, incremental) ==
    LET updateRequest ==
            <<rfbFramebufferUpdateRequest, IF incremental THEN 1 ELSE 0>>
                \o Bytes16(0) \o Bytes16(0)
                \o Bytes16(s.m_framebufferWidth) \o Bytes16(s.m_framebufferHeight)
    IN  IF Written(s) THEN write(s, updateRequest) ELSE close(s)

(***************************************************************************)
(* The server: what it sends on one connection.  A script fixes the        *)
(* handshake bytes; Running-state messages are chosen as they are sent.    *)
(***************************************************************************)
\* the ASCII digit of n at decimal place p, and "RFB aaa.bbb\n"
Digit(n, p) == 48 + ((n \div p) % 10)

VersionMsg(a, b) ==
    <<82, 70, 66, 32, Digit(a, 100), Digit(a, 10), Digit(a, 1), 46,
      Digit(b, 100), Digit(b, 10), Digit(b, 1), 10>>

GoodVersion == VersionMsg(3, 8)

Versions ==
    {VersionMsg(3, 8), VersionMsg(3, 889), VersionMsg(3, 7), VersionMsg(2, 0),
     VersionMsg(3, 3), VersionMsg(4, 8),
     [VersionMsg(3, 8) EXCEPT ![8] = 120],
     [VersionMsg(3, 8) EXCEPT ![1] = 114],
     [VersionMsg(3, 8) EXCEPT ![10] = 97],
     [VersionMsg(3, 8) EXCEPT ![12] = 13]}

\* security-type messages: the count byte, then the types
SecLists ==
    {<<1, 1>>, <<1, 2>>, <<2, 1, 2>>, <<2, 2, 1>>, <<2, 99, 2>>, <<2, 99, 1>>,
     <<1, 99>>, <<0>>, <<3, 5, 16, 1>>}

Challenge == <<200, 3, 77, 0, 255, 16, 9, 128, 1, 2, 3, 4, 5, 6, 7, 250>>

Results == {Bytes32(0), Bytes32(1), Bytes32(2), Bytes32(16777216)}

NoPassword == <<>>

Passwords ==
    {NoPassword, <<115, 101, 99>>, <<1, 2, 3, 4, 5, 6, 7, 8>>,
     <<9, 8, 7, 6, 5, 4, 3, 2, 1, 0>>}

PixelFormatBytes(bpp) ==
    <<bpp, bpp, 0, 1, 0, 255, 0, 255, 0, 255, 16, 8, 0, 0, 0, 0>>

ServerInit(sc) ==
    Bytes16(sc.w) \o Bytes16(sc.h) \o PixelFormatBytes(sc.bpp)
        \o Bytes32(sc.nameLen) \o Fill(sc.nameLen, sc.nameByte)

\* msgSet names the kind of Running-state messages sent on the connection,
\* cmds the number of outbound commands the owner issues on it, hangup
\* whether the server may disconnect
Script(ver, sec, res, w, h, bpp, nameLen, nameByte, msgs) ==
    [ver |-> ver, sec |-> sec, res |-> res, w |-> w, h |-> h, bpp |-> bpp,
     nameLen |-> nameLen, nameByte |-> nameByte, msgs |-> msgs,
     msgSet |-> "control", cmds |-> 0, hangup |-> FALSE]

DefaultScript == Script(GoodVersion, <<1, 1>>, Bytes32(0), 4, 3, 8, 0, 65, 0)

\* name lengths the server announces; -1 is the pattern of 2^32 - 1
NameLengths == {0, 2, 30, 255, 256, -1}
ShortNameLengths == {0, 2}

Scripts ==
    {[DefaultScript EXCEPT !.ver = v] : v \in Versions}
    \cup {[DefaultScript EXCEPT !.sec = l] : l \in SecLists}
    \cup {[DefaultScript EXCEPT !.res = r, !.sec = l] :
              r \in Results, l \in {<<1, 1>>, <<1, 2>>}}
    \cup {[DefaultScript EXCEPT !.nameLen = n] : n \in NameLengths}
    \cup {[DefaultScript EXCEPT !.nameLen = n, !.nameByte = 2, !.w = 300, !.h = 2,
                                !.bpp = 32, !.msgs = 1] : n \in ShortNameLengths}
    \cup {[DefaultScript EXCEPT !.msgSet = f, !.msgs = MaxMsgs] :
              f \in {"control", "update"}}
    \cup {[DefaultScript EXCEPT !.msgSet = "update", !.msgs = 1, !.cmds = MaxCmds]}
    \cup {[DefaultScript EXCEPT !.msgSet = f, !.msgs = 1, !.bpp = bpp] :
              f \in {"decoder", "hextile", "cursor"}, bpp \in {8, 32}}
    \cup {[DefaultScript EXCEPT !.msgSet = "clip", !.msgs = 1]}
    \cup {[DefaultScript EXCEPT !.hangup = TRUE, !.cmds = MaxCmds]}

\* the connections of the model: a server script and the client's password
Connections ==
    {<<sc, NoPassword>> : sc \in Scripts}
    \cup {<<[DefaultScript EXCEPT !.sec = <<1, 2>>, !.msgs = 1], pw>> : pw \in Passwords}

HasChallenge(sc) ==
    /\ sc.sec[1] > 0
    /\ Contains(SubSeq(sc.sec, 2, Len(sc.sec)), rfbSecTypeVncAuth)

HandshakeStream(sc) ==
    sc.ver \o sc.sec \o (IF HasChallenge(sc) THEN Challenge ELSE <<>>)
        \o sc.res \o ServerInit(sc)

\* Running-state messages the server may send
FbUpdate(nRects) == <<rfbFramebufferUpdate, 0>> \o Bytes16(nRects)
Rect(x, y, w, h, encoding) ==
    Bytes16(x) \o Bytes16(y) \o Bytes16(w) \o Bytes16(h) \o Bytes32(encoding)

\* well-formed messages
ValidRunMsgs ==
    {<<rfbBell>>,
     <<rfbXvp, 0, 1, 0>>,
     <<rfbResizeFrameBuffer, 0>> \o Bytes16(258) \o Bytes16(7),
     <<rfbServerCutText, 0, 0, 0>> \o Bytes32(2) \o <<104, 105>>,
     <<rfbSetColourMapEntries, 0>> \o Bytes16(0) \o Bytes16(1) \o Fill(6, 9),
     FbUpdate(0),
     FbUpdate(1) \o Rect(1, 1, 2, 1, rfbEncodingCopyRect) \o <<0, 0, 0, 0>>}

\* an unknown message type, an unsupported encoding, and cut texts whose
\* length field is 2^32 - 8 and 2^32 - 6
InvalidRunMsgs ==
    {<<7>>,
     FbUpdate(1) \o Rect(0, 0, 1, 1, 3),
     <<rfbServerCutText, 0, 0, 0>> \o Bytes32(-8),
     <<rfbServerCutText, 0, 0, 0>> \o Bytes32(-6)}

RunMsgs == ValidRunMsgs \cup InvalidRunMsgs

\* one rectangle of a framebuffer update: header fields and payload bytes
RectOf(x, y, w, h, encoding, payload) ==
    [x |-> x, y |-> y, w |-> w, h |-> h, encoding |-> encoding,
     payload |-> payload]

RECURSIVE RectBytes(_, _)
\* the bytes of the rectangles from the i-th on
RectBytes(rects, i) ==
    IF i > Len(rects) THEN <<>>
    ELSE Rect(rects[i].x, rects[i].y, rects[i].w, rects[i].h, rects[i].encoding)
             \o rects[i].payload \o RectBytes(rects, i + 1)

\* a FramebufferUpdate message with the given rectangles
UpdateMsg(rects) == FbUpdate(Len(rects)) \o RectBytes(rects, 1)

\* rectangle lists of the updates sent to a client whose server-init said
\* 4 x 3 pixels of 8 bits: Raw rectangles inside, outside and across the
\* framebuffer border, pseudo-encoded and cursor-shape rectangles
UpdateRectLists ==
    {<<RectOf(0, 0, 1, 1, rfbEncodingRaw, <<7>>),
       RectOf(2, 2, 1, 1, rfbEncodingRaw, <<8>>)>>,
     <<RectOf(1, 1, 2, 2, rfbEncodingPointerPos, <<>>),
       RectOf(0, 0, 1, 1, rfbEncodingRaw, <<7>>)>>,
     <<RectOf(0, 0, 4, 3, rfbEncodingKeyboardLedState, <<>>),
       RectOf(1, 1, 2, 1, rfbEncodingSupportedEncodings, <<0, 5>>)>>,
     <<RectOf(0, 0, 1, 1, rfbEncodingServerIdentity, <<86>>),
       RectOf(0, 0, 2, 2, rfbEncodingNewFBSize, <<>>)>>,
     <<RectOf(0, 0, 1, 1, rfbEncodingXCursor, Fill(sz_rfbXCursorColors, 0) \o <<1, 1>>),
       RectOf(1, 1, 1, 1, rfbEncodingRichCursor, <<7, 1>>)>>,
     <<RectOf(5, 0, 1, 1, rfbEncodingRaw, <<7>>),
       RectOf(0, 3, 1, 1, rfbEncodingRaw, <<8>>)>>,
     <<RectOf(3, 2, 2, 1, rfbEncodingRaw, <<7, 8>>)>>}

\* the messages of an "update" connection: the updates, a bell, and a
\* resize to 2 x 1
UpdateRunMsgs ==
    {UpdateMsg(rects) : rects \in UpdateRectLists}
    \cup {<<rfbBell>>,
          <<rfbResizeFrameBuffer, 0>> \o Bytes16(2) \o Bytes16(1)}

\* an RRE rectangle's payload: the sub-header with the number of
\* subrectangles, the background pixel, and per subrectangle a pixel and
\* x, y, w, h of 16 bits each
RREPayload(nSubrects, bytesPerPixel) ==
    Bytes32(nSubrects) \o Fill(bytesPerPixel, 5)
        \o Fill(nSubrects * (bytesPerPixel + 8), 6)

\* updates whose rectangles are RRE-encoded, with none and one subrectangle
RREMsgs(bytesPerPixel) ==
    {UpdateMsg(<<RectOf(0, 0, 2, 2, rfbEncodingRRE, RREPayload(n, bytesPerPixel))>>) :
         n \in {0, 1}}

\* an update with an RRE rectangle that announces 2^30 subrectangles, and
\* of its payload the background pixel
ManySubrectsMsg(bytesPerPixel) ==
    FbUpdate(1) \o Rect(0, 0, 2, 2, rfbEncodingRRE) \o Bytes32(1073741824)
        \o Fill(bytesPerPixel, 5)

\* an update that announces three rectangles and ends after the first with
\* the LastRect marker
LastRectMsg ==
    FbUpdate(3) \o Rect(1, 1, 2, 1, rfbEncodingCopyRect) \o <<0, 0, 0, 0>>
        \o Rect(0, 0, 1, 1, rfbEncodingLastRect)

\* an update whose second rectangle has an encoding the engine does not know
UnknownEncodingMsg ==
    FbUpdate(2) \o Rect(1, 1, 2, 1, rfbEncodingCopyRect) \o <<0, 0, 0, 0>>
        \o Rect(0, 0, 1, 1, 3)

\* the start of an update with a Raw rectangle of 32768 x 32768 pixels
HugeRawMsg == FbUpdate(1) \o Rect(0, 0, 32768, 32768, rfbEncodingRaw)

\* the starts of messages that declare more bytes than the maximum: a cut
\* text and a Zlib rectangle of MaximumMessageSize bytes
OversizedMsgs ==
    {<<rfbServerCutText, 0, 0, 0>> \o Bytes32(MaximumMessageSize),
     FbUpdate(1) \o Rect(0, 0, 1, 1, rfbEncodingZlib) \o Bytes32(MaximumMessageSize)}

\* the messages of a "decoder" connection
DecoderValidMsgs(bytesPerPixel) == RREMsgs(bytesPerPixel) \cup {LastRectMsg}
DecoderRunMsgs(bytesPerPixel) ==
    DecoderValidMsgs(bytesPerPixel)
        \cup {UnknownEncodingMsg, HugeRawMsg, ManySubrectsMsg(bytesPerPixel)}
        \cup OversizedMsgs

\* one Hextile tile of tw x th pixels as the server sends it: the
\* sub-encoding byte, then either the raw pixels or the optional background
\* and foreground pixels and the optional subrectangle list of count entries
HextileTileBytes(subEncoding, count, tw, th, bytesPerPixel) ==
    <<subEncoding>>
        \o (IF HasBit(subEncoding, rfbHextileRaw)
            THEN Fill(tw * th * bytesPerPixel, 1)
            ELSE Fill(IF HasBit(subEncoding, rfbHextileBackgroundSpecified)
                      THEN bytesPerPixel ELSE 0, 2)
                 \o Fill(IF HasBit(subEncoding, rfbHextileForegroundSpecified)
                         THEN bytesPerPixel ELSE 0, 3)
                 \o (IF HasBit(subEncoding, rfbHextileAnySubrects)
                     THEN <<count>>
                          \o Fill(count * (IF HasBit(subEncoding, rfbHextileSubrectsColoured)
                                           THEN 2 + bytesPerPixel ELSE 2), 4)
                     ELSE <<>>))

RECURSIVE HextilePayload(_, _, _, _, _)
\* the tiles of a w x h rectangle from the i-th on, rows of tiles from the
\* top, each row from the left, the last column and row clipped
HextilePayload(w, h, tiles, i, bytesPerPixel) ==
    IF i > Len(tiles) THEN <<>>
    ELSE LET columns == (w + 15) \div 16
             tw == Min(16, w - 16 * ((i - 1) % columns))
             th == Min(16, h - 16 * ((i - 1) \div columns))
         IN  HextileTileBytes(tiles[i][1], tiles[i][2], tw, th, bytesPerPixel)
                 \o HextilePayload(w, h, tiles, i + 1, bytesPerPixel)

\* an update with one Hextile rectangle; tiles[i] is <<sub-encoding, count>>
HextileMsg(w, h, tiles, bytesPerPixel) ==
    UpdateMsg(<<RectOf(0, 0, w, h, rfbEncodingHextile,
                       HextilePayload(w, h, tiles, 1, bytesPerPixel))>>)

\* Hextile rectangles of 2 and 4 tiles with every sub-encoding bit in use,
\* and rectangles without area
HextileMsgs(bytesPerPixel) ==
    {HextileMsg(17, 1, <<<<30, 1>>, <<31, 0>>>>, bytesPerPixel),
     HextileMsg(1, 17, <<<<8, 2>>, <<4, 0>>>>, bytesPerPixel),
     HextileMsg(0, 5, <<>>, bytesPerPixel),
     HextileMsg(5, 0, <<>>, bytesPerPixel)}
    \cup (IF bytesPerPixel = 1
          THEN {HextileMsg(18, 17, <<<<0, 0>>, <<2, 0>>, <<1, 0>>, <<1, 0>>>>, 1)}
          ELSE {})

\* payload of an XCursor rectangle: nothing for a cursor without area,
\* else the colours and two bitmaps of ((w + 7) / 8) x h bytes
XCursorPayload(w, h) ==
    IF w * h = 0 THEN <<>>
    ELSE Fill(sz_rfbXCursorColors, 1) \o Fill(((w + 7) \div 8) * h, 2)
             \o Fill(((w + 7) \div 8) * h, 3)

\* payload of a RichCursor rectangle: nothing for a cursor without area,
\* else the pixels and one bitmask of ((w + 7) / 8) x h bytes
RichCursorPayload(w, h, bytesPerPixel) ==
    IF w * h = 0 THEN <<>>
    ELSE Fill(w * h * bytesPerPixel, 1) \o Fill(((w + 7) \div 8) * h, 2)

\* updates with one cursor-shape rectangle
CursorMsgs(bytesPerPixel) ==
    {UpdateMsg(<<RectOf(0, 0, d[1], d[2], rfbEncodingXCursor,
                        XCursorPayload(d[1], d[2]))>>) :
         d \in {<<9, 2>>, <<0, 3>>, <<3, 0>>}}
    \cup {UpdateMsg(<<RectOf(0, 0, d[1], d[2], rfbEncodingRichCursor,
                             RichCursorPayload(d[1], d[2], bytesPerPixel))>>) :
              d \in {<<2, 2>>, <<0, 2>>, <<3, 0>>}
                       \cup (IF bytesPerPixel = 1 THEN {<<9, 2>>} ELSE {})}

\* rectangle lists of updates sent to a client whose server-init said 4 x 3
\* pixels of 8 bits: Raw rectangles touching and crossing the framebuffer
\* border, alone and behind a NewFBSize rectangle
ClipRectLists ==
    {<<RectOf(0, 0, 2, 2, rfbEncodingNewFBSize, <<>>),
       RectOf(2, 0, 2, 1, rfbEncodingRaw, <<7, 8>>)>>,
     <<RectOf(0, 0, 8, 8, rfbEncodingNewFBSize, <<>>),
       RectOf(3, 2, 2, 1, rfbEncodingRaw, <<7, 8>>)>>,
     <<RectOf(0, 0, 1, 1, rfbEncodingRaw, <<7>>),
       RectOf(3, 2, 2, 1, rfbEncodingRaw, <<7, 8>>)>>,
     <<RectOf(2, 1, 2, 2, rfbEncodingRaw, <<5, 6, 7, 8>>)>>,
     <<RectOf(1, 2, 1, 2, rfbEncodingRaw, <<7, 8>>),
       RectOf(1, 1, 1, 1, rfbEncodingRaw, <<9>>)>>}

ClipMsgs == {UpdateMsg(rects) : rects \in ClipRectLists}

\* the messages the server of script sc may send
RunMsgsOf(sc) ==
    CASE sc.msgSet = "update" -> UpdateRunMsgs
      [] sc.msgSet = "decoder" -> DecoderRunMsgs(sc.bpp \div 8)
      [] sc.msgSet = "hextile" -> HextileMsgs(sc.bpp \div 8)
      [] sc.msgSet = "cursor" -> CursorMsgs(sc.bpp \div 8)
      [] sc.msgSet = "clip" -> ClipMsgs
      [] OTHER -> RunMsgs

\* pixel formats the owner may ask for
PixelFormatOf(bpp, depth, redMax, greenMax, blueMax, redShift, greenShift) ==
    [bitsPerPixel |-> bpp, depth |-> depth, bigEndian |-> 0, trueColour |-> 1,
     redMax |-> redMax, greenMax |-> greenMax, blueMax |-> blueMax,
     redShift |-> redShift, greenShift |-> greenShift, blueShift |-> 0]

PixelFormats ==
    {PixelFormatOf(32, 24, 255, 255, 255, 16, 8),
     PixelFormatOf(16, 16, 31, 63, 31, 11, 5)}

\* encoding lists the owner may ask for: empty, one entry, the capacity,
\* and one more than the capacity
EncodingList(n) ==
    [i \in 1..n |-> IF i % 2 = 1 THEN rfbEncodingZRLE + i - 1
                    ELSE rfbEncodingXCursor - i]
EncodingLists ==
    {<<>>, <<rfbEncodingRaw>>, <<rfbEncodingLastRect, rfbEncodingCopyRect>>,
     EncodingList(MAX_ENCODINGS), EncodingList(MAX_ENCODINGS + 1)}

(***************************************************************************)
(* Initial state: the engine as constructed, nothing received.             *)
(***************************************************************************)
Constructed(c) ==
    /\ scn = c[1]
    /\ m_vncPassword = c[2]
    /\ pending = HandshakeStream(c[1])
    /\ m_state = "Disconnected"
    /\ m_pixelFormat = Fill(sz_rfbPixelFormat, 0)
    /\ m_framebufferWidth = 0
    /\ m_framebufferHeight = 0
    /\ m_serverInitMessage = <<>>
    /\ m_lastMessage = <<>>
    /\ m_lastUpdatedRect = NullRect
    /\ sockIn = <<>>
    /\ sockOut = <<>>
    /\ sockOpen = TRUE
    /\ writable = TRUE
    /\ consumed = 0
    /\ sent = <<>>
    /\ cmds = 0
    /\ op = "init"
    /\ ret = FALSE

\* no console runs beside the engine
Init ==
    /\ \E c \in Connections : Constructed(c)
    /\ visible = FALSE
    /\ win32 = FALSE
    /\ m_configChanged = FALSE
    /\ buttonBox = FALSE
    /\ widgets = <<>>
    /\ config = <<>>
    /\ localBackend = <<>>
    /\ slot = "none"
    /\ outcome = "none"
    /\ answer = "none"

\* the engine and socket after a call whose outcome is s
Apply(name, s) ==
    /\ op' = name
    /\ ret' = s.ret
    /\ m_state' = s.m_state
    /\ m_pixelFormat' = s.m_pixelFormat
    /\ m_framebufferWidth' = s.m_framebufferWidth
    /\ m_framebufferHeight' = s.m_framebufferHeight
    /\ m_serverInitMessage' = s.m_serverInitMessage
    /\ m_lastMessage' = s.m_lastMessage
    /\ m_lastUpdatedRect' = s.m_lastUpdatedRect
    /\ sockIn' = s.sockIn
    /\ sockOut' = s.sockOut
    /\ sockOpen' = s.sockOpen
    /\ consumed' = s.consumed

\* start(), called once by the owner of the connection
start(s) == [s EXCEPT !.m_state = "Protocol"]

Start ==
    /\ m_state = "Disconnected"
    /\ Apply("start", start(Cur))
    /\ UNCHANGED <<console, m_vncPassword, writable, pending, scn, sent, cmds>>

\* read(), called in any state
Read ==
    /\ Apply("read", readStep(Cur))
    /\ UNCHANGED <<console, m_vncPassword, writable, pending, scn, sent, cmds>>

\* mutant: a call that consumed a message goes on to the next one
ReceiveMessageAgain ==
    /\ m_state = "Running"
    /\ Apply("receiveMessage",
             LET s1 == receiveMessage(Cur)
             IN  IF s1.ret THEN Return(receiveMessage(s1), TRUE) ELSE s1)
    /\ UNCHANGED <<console, m_vncPassword, writable, pending, scn, sent, cmds>>

\* receiveMessage(), which the owner calls once the state is Running
ReceiveMessage ==
    /\ m_state = "Running"
    /\ Apply("receiveMessage", receiveMessage(Cur))
    /\ UNCHANGED <<console, m_vncPassword, writable, pending, scn, sent, cmds>>

\* chunk sizes the transport may deliver with n bytes in flight
ChunkSizes(n) == (1..Min(n, MaxChunk)) \cup {n}

\* k bytes in flight reach the socket's receive buffer; the owner has called
\* start() before it lets the event loop run
Arrive(k) ==
    /\ sockOpen
    /\ m_state # "Disconnected"
    /\ k \in 1..Len(pending)
    /\ sockIn' = sockIn \o SubSeq(pending, 1, k)
    /\ pending' = Drop(pending, k)
    /\ op' = "arrive"
    /\ ret' = FALSE
    /\ UNCHANGED <<console, m_state, m_vncPassword, m_pixelFormat, m_framebufferWidth,
                   m_framebufferHeight, m_serverInitMessage, m_lastMessage,
                   m_lastUpdatedRect, sockOut, sockOpen, writable, consumed, scn,
                   sent, cmds>>

\* the server, its handshake sent and delivered, sends one more message
ServerSend(m) ==
    /\ sockOpen
    /\ pending = <<>>
    /\ Len(sent) < scn.msgs
    /\ pending' = m
    /\ sent' = Append(sent, m)
    /\ op' = "send"
    /\ ret' = FALSE
    /\ UNCHANGED <<console, m_state, m_vncPassword, m_pixelFormat, m_framebufferWidth,
                   m_framebufferHeight, m_serverInitMessage, m_lastMessage,
                   m_lastUpdatedRect, sockIn, sockOut, sockOpen, writable,
                   consumed, scn, cmds>>

\* setPixelFormat( pixelFormat ), called by the owner of a running connection
SetPixelFormat(f) ==
    /\ m_state = "Running"
    /\ cmds < scn.cmds
    /\ cmds' = cmds + 1
    /\ Apply("setPixelFormat", setPixelFormat(Cur, f))
    /\ UNCHANGED <<console, m_vncPassword, writable, pending, scn, sent>>

\* setEncodings( encodings ), called by the owner of a running connection
SetEncodings(l) ==
    /\ m_state = "Running"
    /\ cmds < scn.cmds
    /\ cmds' = cmds + 1
    /\ Apply("setEncodings", setEncodings(Cur, l))
    /\ UNCHANGED <<console, m_vncPassword, writable, pending, scn, sent>>

\* requestFramebufferUpdate( incremental ), called by the owner of a
\* running connection
RequestFramebufferUpdate(incremental) ==
    /\ m_state = "Running"
    /\ cmds < scn.cmds
    /\ cmds' = cmds + 1
    /\ Apply("requestFramebufferUpdate", requestFramebufferUpdate(Cur, incremental))
    /\ UNCHANGED <<console, m_vncPassword, writable, pending, scn, sent>>

\* the server disconnects: what it sent before still arrives, and from now
\* on the socket accepts no write
PeerCloses ==
    /\ scn.hangup
    /\ sockOpen
    /\ writable
    /\ m_state # "Disconnected"
    /\ writable' = FALSE
    /\ op' = "peerCloses"
    /\ ret' = FALSE
    /\ UNCHANGED <<console, m_state, m_vncPassword, m_pixelFormat, m_framebufferWidth,
                   m_framebufferHeight, m_serverInitMessage, m_lastMessage,
                   m_lastUpdatedRect, sockIn, sockOut, sockOpen, consumed,
                   pending, scn, sent, cmds>>

Next ==
    \/ Start
    \/ Read
    \/ ReceiveMessage
    \/ \E k \in ChunkSizes(Len(pending)) : Arrive(k)
    \/ \E m \in RunMsgsOf(scn) : ServerSend(m)
    \/ \E f \in PixelFormats : SetPixelFormat(f)
    \/ \E l \in EncodingLists : SetEncodings(l)
    \/ \E incremental \in BOOLEAN : RequestFramebufferUpdate(incremental)
    \/ PeerCloses

Spec == Init /\ [][Next]_vars

(***************************************************************************)
(* The units of the server's stream, for stating properties: where each    *)
(* unit ends, which unit is at the read cursor, and whether it is one the  *)
(* protocol allows.                                                        *)
(***************************************************************************)
HandshakeUnits(sc) ==
    <<sc.ver, sc.sec>> \o (IF HasChallenge(sc) THEN <<Challenge>> ELSE <<>>)
        \o <<sc.res, ServerInit(sc)>>

\* the connection state in which each handshake unit is read
HandshakeStates(sc) ==
    <<"Protocol", "SecurityInit">>
        \o (IF HasChallenge(sc) THEN <<"SecurityChallenge">> ELSE <<>>)
        \o <<"SecurityResult", "FramebufferInit">>

Units == HandshakeUnits(scn) \o sent

RECURSIVE EndOf(_, _)
\* stream offset at which unit k ends; 0 for k = 0
EndOf(units, k) == IF k = 0 THEN 0 ELSE EndOf(units, k - 1) + Len(units[k])

\* bytes that have reached the socket
arrived == consumed + Len(sockIn)

\* the read cursor is at the start of unit k, and the engine is in the
\* state that reads it
AtUnit(k) ==
    /\ k \in 1..Len(Units)
    /\ consumed = EndOf(Units, k - 1)
    /\ m_state = (IF k <= Len(HandshakeStates(scn))
                  THEN HandshakeStates(scn)[k] ELSE "Running")

UnitBuffered(k) == arrived >= EndOf(Units, k)

\* "RFB ddd.ddd\n" with major 3 and minor 7 or more
GoodVersionBytes(p) ==
    \E a \in {3}, c \in 7..999 : p = VersionMsg(a, c)

\* a security-type message whose count is its length, offering 1 or 2
GoodSecList(u) ==
    /\ Len(u) >= 2
    /\ u[1] = Len(u) - 1
    /\ \E i \in 2..Len(u) : u[i] \in {rfbSecTypeNone, rfbSecTypeVncAuth}

ValidUnit(k) ==
    LET st == IF k <= Len(HandshakeStates(scn))
              THEN HandshakeStates(scn)[k] ELSE "Running"
        u == Units[k]
    IN  CASE st = "Protocol" -> GoodVersionBytes(u)
          [] st = "SecurityInit" -> GoodSecList(u)
          [] st = "SecurityChallenge" -> TRUE
          [] st = "SecurityResult" -> u = Bytes32(0)
          [] st = "FramebufferInit" -> scn.nameLen \in 0..255
          [] st = "Running" ->
                u \in (CASE scn.msgSet = "update" -> UpdateRunMsgs
                          [] scn.msgSet = "decoder" -> DecoderValidMsgs(scn.bpp \div 8)
                          [] scn.msgSet = "hextile" -> HextileMsgs(scn.bpp \div 8)
                          [] scn.msgSet = "cursor" -> CursorMsgs(scn.bpp \div 8)
                          [] scn.msgSet = "clip" -> ClipMsgs
                          [] OTHER -> ValidRunMsgs)

\* a script all of whose handshake units are valid
ValidScript(sc) ==
    /\ GoodVersionBytes(sc.ver)
    /\ GoodSecList(sc.sec)
    /\ sc.res = Bytes32(0)
    /\ sc.nameLen \in 0..255

\* what a client that follows the protocol has written after the handshake
ExpectedOut(sc, passwd) ==
    sc.ver
        \o (IF HasChallenge(sc)
            THEN <<rfbSecTypeVncAuth>> \o rfbDes(vncKey(passwd), SubSeq(Challenge, 1, 8))
                     \o rfbDes(vncKey(passwd), SubSeq(Challenge, 9, 16))
            ELSE <<rfbSecTypeNone>>)
        \o <<1>>

\* steps that are calls of the two parsing entry points
ReadCall == op' = "read"
MessageCall == op' = "receiveMessage"
ParseCall == ReadCall \/ MessageCall

\* the engine's own data, left alone by a call
EngineUnchanged ==
    UNCHANGED <<m_state, m_pixelFormat, m_framebufferWidth, m_framebufferHeight,
                m_serverInitMessage, m_lastMessage, m_lastUpdatedRect>>

(***************************************************************************)
(* Claims.                                                                 *)
(***************************************************************************)

\* C1: no partial consumption.  In every connection state, a read() or
\* receiveMessage() call made while the unit at the read cursor has not
\* fully arrived returns false and consumes no byte.
C1_NoPartialConsumption ==
    [][\A k \in 1..Len(Units) :
          (ParseCall /\ sockOpen /\ AtUnit(k) /\ ~UnitBuffered(k))
              => (ret' = FALSE /\ consumed' = consumed)]_vars

\* C2: chunk-size independence.  For a valid handshake stream, however it
\* was split into chunks, once every byte has arrived and read() has been
\* called until it returned false, the engine is in the one final state the
\* stream determines: Running, every handshake byte consumed, the replies
\* written, pixel format and geometry those of the server-init message.
\* The transport is one that accepts writes; refused writes are C22's.
C2_ChunkIndependence ==
    (/\ ValidScript(scn)
     /\ writable
     /\ sent = <<>>
     /\ pending = <<>>
     /\ op = "read"
     /\ ret = FALSE)
        => (/\ sockOpen
            /\ m_state = "Running"
            /\ consumed = Len(HandshakeStream(scn))
            /\ sockOut = ExpectedOut(scn, m_vncPassword)
            /\ m_pixelFormat = PixelFormatBytes(scn.bpp)
            /\ m_framebufferWidth = scn.w
            /\ m_framebufferHeight = scn.h)

\* the final state of C2 is the one a delivery unit by unit ends in
C2_CanonicalRun ==
    /\ ValidScript(scn)
    /\ sent = <<>>
    /\ pending = <<>>
    /\ op = "read"
    /\ ret = FALSE
    /\ m_state = "Running"
    /\ sockOut = ExpectedOut(scn, m_vncPassword)

C4_ServerInitWhole ==
    [][\A k \in 1..Len(Units) :
          (/\ ReadCall
           /\ sockOpen
           /\ AtUnit(k)
           /\ m_state = "FramebufferInit"
           /\ scn.nameLen \in 0..255)
              => IF UnitBuffered(k)
                 THEN m_state' = "Running" /\ consumed' = EndOf(Units, k)
                 ELSE ret' = FALSE /\ m_state' = "FramebufferInit"]_vars

\* the nameLength field of a server-init header at the front of the buffer
NameLengthField(buf) == BE32(buf, 21)

\* C5: desktop-name length bound.  A server-init header declaring a
\* nameLength above 255 closes the transport, returns false, consumes no
\* byte and leaves the state at FramebufferInit; a fully buffered
\* server-init declaring at most 255 is accepted: the state becomes Running
\* and width and height are the big-endian values of the header.
C5_NameLengthBound ==
    [][(/\ ReadCall
        /\ sockOpen
        /\ m_state = "FramebufferInit"
        /\ Len(sockIn) >= sz_rfbServerInitMsg)
           => /\ UGt(NameLengthField(sockIn), 255)
                   => (/\ ~sockOpen'
                       /\ ret' = FALSE
                       /\ consumed' = consumed
                       /\ m_state' = "FramebufferInit")
              /\ (/\ ~UGt(NameLengthField(sockIn), 255)
                  /\ Len(sockIn) >= sz_rfbServerInitMsg + NameLengthField(sockIn))
                   => (/\ ret' = TRUE
                       /\ sockOpen'
                       /\ m_state' = "Running"
                       /\ m_framebufferWidth' = sockIn[1] * 256 + sockIn[2]
                       /\ m_framebufferHeight' = sockIn[3] * 256 + sockIn[4])]_vars

\* a server-init with a 255-byte name was accepted whole
C5_Witness ==
    /\ op = "read"
    /\ ret = TRUE
    /\ m_state = "Running"
    /\ scn.nameLen = 255
    /\ Len(m_serverInitMessage) = sz_rfbServerInitMsg + 255
    /\ m_framebufferWidth = scn.w

\* a server-init announcing 256 name bytes closed the connection
C5_Rejected ==
    /\ op = "read"
    /\ ret = FALSE
    /\ ~sockOpen
    /\ m_state = "FramebufferInit"
    /\ scn.nameLen = 256

ForwardEdges ==
    {<<"Protocol", "SecurityInit">>, <<"SecurityInit", "SecurityChallenge">>,
     <<"SecurityInit", "SecurityResult">>, <<"SecurityChallenge", "SecurityResult">>,
     <<"SecurityResult", "FramebufferInit">>, <<"FramebufferInit", "Running">>}

\* C6: monotonic progression.  After start(), a read() or receiveMessage()
\* call leaves the state where it is or moves it one step forward along
\* Protocol, SecurityInit, SecurityChallenge (skipped for type None),
\* SecurityResult, FramebufferInit, Running; Running is never left.
C6_MonotonicProgression ==
    [][ParseCall => (m_state' = m_state \/ <<m_state, m_state'>> \in ForwardEdges)]_vars

\* Running was reached through SecurityChallenge and a message consumed there
C6_Witness ==
    /\ m_state = "Running"
    /\ op = "receiveMessage"
    /\ ret = TRUE
    /\ HasChallenge(scn)
    /\ Len(sockOut) = sz_rfbProtocolVersionMsg + 1 + CHALLENGESIZE + 1

\* C7: a failed step changes nothing unless it closes the transport.  A
\* call that returns false leaves the connection state as it was, and when
\* it did not close the transport also pixel format, geometry, last message
\* and updated rectangle.
C7_FailedStepChangesNothing ==
    [][(ParseCall /\ ret' = FALSE)
           => /\ m_state' = m_state
              /\ sockOpen' => EngineUnchanged]_vars

\* C8: insufficient data is never fatal.  In every connection state, with
\* a proper prefix of a valid unit buffered the call returns false without
\* closing the transport, and once the remaining bytes of the unit have
\* arrived the call succeeds.
C8_InsufficientDataNotFatal ==
    [][\A k \in 1..Len(Units) :
          (/\ IF k <= Len(HandshakeStates(scn)) THEN ReadCall ELSE MessageCall
           /\ sockOpen
           /\ AtUnit(k)
           /\ ValidUnit(k))
              => /\ ~UnitBuffered(k) => (ret' = FALSE /\ sockOpen')
                 /\ arrived = EndOf(Units, k) => ret' = TRUE]_vars

\* C9: version negotiation.  In state Protocol with exactly 12 bytes
\* buffered the step succeeds, with the state SecurityInit and the 12 bytes
\* written back unchanged, exactly when they are "RFB ddd.ddd\n" with major
\* 3 and minor 7 or more; otherwise the transport is closed, nothing is
\* written and the state stays Protocol.
\* The transport is one that accepts writes; refused writes are C22's.
C9_VersionNegotiation ==
    [][(/\ ReadCall
        /\ sockOpen
        /\ writable
        /\ m_state = "Protocol"
        /\ Len(sockIn) = 12)
           => IF GoodVersionBytes(sockIn)
              THEN /\ ret' = TRUE
                   /\ m_state' = "SecurityInit"
                   /\ sockOut' = sockOut \o sockIn
                   /\ sockOpen'
              ELSE /\ ret' = FALSE
                   /\ ~sockOpen'
                   /\ sockOut' = sockOut
                   /\ m_state' = "Protocol"]_vars

\* version 003.889 was accepted and echoed
C9_Witness ==
    /\ op = "read"
    /\ ret = TRUE
    /\ m_state = "SecurityInit"
    /\ sockOut = VersionMsg(3, 889)

\* version 003.003 was rejected
C9_Rejected ==
    /\ op = "read"
    /\ ret = FALSE
    /\ m_state = "Protocol"
    /\ ~sockOpen
    /\ scn.ver = VersionMsg(3, 3)
    /\ sockOut = <<>>

\* a security-type message is whole at the front of the buffer
SecListBuffered(buf) == Len(buf) >= 1 /\ Len(buf) >= 1 + buf[1]
SecListOf(buf) == SubSeq(buf, 2, 1 + buf[1])

\* what C10 says of a call made with the list types at the front of the buffer
SecuritySelection(types) ==
    IF Contains(types, 2)
    THEN /\ ret' = TRUE
         /\ sockOut' = sockOut \o <<2>>
         /\ m_state' = "SecurityChallenge"
    ELSE IF Contains(types, 1)
    THEN /\ ret' = TRUE
         /\ sockOut' = sockOut \o <<1>>
         /\ m_state' = "SecurityResult"
    ELSE /\ ret' = FALSE
         /\ ~sockOpen'
         /\ sockOut' = sockOut
         /\ m_state' = "SecurityInit"

\* C10 as stated: for every fully buffered security-type list, VNC-Auth is
\* chosen if offered, else None if offered, else (count 0, or neither type)
\* the transport is closed, nothing written, and the state stays
\* SecurityInit.
\* The transport is one that accepts writes; refused writes are C22's.
C10_SecurityTypeSelection ==
    [][(/\ ReadCall
        /\ sockOpen
        /\ writable
        /\ m_state = "SecurityInit"
        /\ SecListBuffered(sockIn))
           => SecuritySelection(SecListOf(sockIn))]_vars

\* C10 amended: the same, for a call made with at least 2 bytes buffered; a
\* lone count byte 0 is not acted on until one more byte has arrived.
C10_SecurityTypeSelectionFrom2 ==
    [][(/\ ReadCall
        /\ sockOpen
        /\ writable
        /\ m_state = "SecurityInit"
        /\ SecListBuffered(sockIn))
           => IF Len(sockIn) >= 2
              THEN SecuritySelection(SecListOf(sockIn))
              ELSE ret' = FALSE /\ sockOpen' /\ consumed' = consumed
                   /\ m_state' = "SecurityInit"]_vars

\* VNC-Auth was chosen from a list that offers it after another type
C10_Witness ==
    /\ op = "read"
    /\ ret = TRUE
    /\ m_state = "SecurityChallenge"
    /\ scn.sec = <<2, 99, 2>>
    /\ sockOut = scn.ver \o <<2>>

\* the key the protocol derives from a password: its first 8 bytes, zero
\* bytes where the password is shorter
ReferenceKey(passwd) ==
    SubSeq(passwd, 1, Min(Len(passwd), 8))
        \o [i \in 1..(8 - Min(Len(passwd), 8)) |-> 0]

\* C11: challenge response.  In state SecurityChallenge with at least 16
\* bytes buffered, read() consumes exactly the 16 challenge bytes and
\* writes exactly 16 bytes, E(key, challenge[0..7]) followed by
\* E(key, challenge[8..15]), key being the password's first 8 bytes padded
\* with zero bytes; the state becomes SecurityResult.
C11_ChallengeResponse ==
    [][(/\ ReadCall
        /\ sockOpen
        /\ m_state = "SecurityChallenge"
        /\ Len(sockIn) >= 16)
           => (/\ ret' = TRUE
               /\ consumed' = consumed + 16
               /\ sockIn' = Drop(sockIn, 16)
               /\ sockOut' = sockOut
                      \o rfbDes(ReferenceKey(m_vncPassword), SubSeq(sockIn, 1, 8))
                      \o rfbDes(ReferenceKey(m_vncPassword), SubSeq(sockIn, 9, 16))
               /\ m_state' = "SecurityResult")]_vars

\* a challenge was answered with a 10-byte password, the result already
\* buffered behind the challenge
C11_Witness ==
    /\ op = "read"
    /\ ret = TRUE
    /\ m_state = "SecurityResult"
    /\ Len(m_vncPassword) = 10
    /\ Len(sockOut) = sz_rfbProtocolVersionMsg + 1 + CHALLENGESIZE
    /\ Len(sockIn) > 0

\* a challenge was answered with a 3-byte password
C11_ShortPassword ==
    /\ op = "read"
    /\ ret = TRUE
    /\ m_state = "SecurityResult"
    /\ Len(m_vncPassword) = 3
    /\ Len(sockOut) = sz_rfbProtocolVersionMsg + 1 + CHALLENGESIZE

\* C12: security result.  In state SecurityResult with at least 4 bytes
\* buffered, if the 4-byte result is OK (zero) read() writes the one-byte
\* client-init message with shared = 1 and the state becomes
\* FramebufferInit; for every other result the transport is closed, nothing
\* is written, false is returned and the state stays SecurityResult.
\* The transport is one that accepts writes; refused writes are C22's.
C12_SecurityResult ==
    [][(/\ ReadCall
        /\ sockOpen
        /\ writable
        /\ m_state = "SecurityResult"
        /\ Len(sockIn) >= 4)
           => IF SubSeq(sockIn, 1, 4) = <<0, 0, 0, 0>>
              THEN /\ ret' = TRUE
                   /\ sockOpen'
                   /\ sockOut' = sockOut \o <<1>>
                   /\ m_state' = "FramebufferInit"
              ELSE /\ ret' = FALSE
                   /\ ~sockOpen'
                   /\ sockOut' = sockOut
                   /\ m_state' = "SecurityResult"]_vars

\* the result "too many attempts" (2) closed the connection
C12_Witness ==
    /\ op = "read"
    /\ ret = FALSE
    /\ ~sockOpen
    /\ m_state = "SecurityResult"
    /\ scn.res = Bytes32(2)
    /\ consumed = Len(scn.ver) + Len(scn.sec) + 4

\* the result OK was answered with the client-init byte
C12_Accepted ==
    /\ op = "read"
    /\ ret = TRUE
    /\ m_state = "FramebufferInit"
    /\ sockOut = scn.ver \o <<1, 1>>

(***************************************************************************)
(* Framebuffer updates, for stating properties: the rectangles of the      *)
(* update at the read cursor and the pixels a rectangle covers.            *)
(***************************************************************************)
\* unit k is a FramebufferUpdate of an "update" connection
IsUpdateUnit(k) ==
    /\ k \in 1..Len(Units)
    /\ \E rects \in UpdateRectLists : Units[k] = UpdateMsg(rects)

\* its rectangles
RectsOfUnit(k) == CHOOSE rects \in UpdateRectLists : Units[k] = UpdateMsg(rects)

\* a receiveMessage() call that consumes the whole update that is unit k
UpdateConsumed(k) ==
    /\ MessageCall
    /\ sockOpen
    /\ AtUnit(k)
    /\ IsUpdateUnit(k)
    /\ ret' = TRUE
    /\ consumed' = EndOf(Units, k)

\* the pixels of the rectangle [x, y, w, h]
Pixels(r) ==
    {<<px, py>> : px \in r.x..(r.x + r.w - 1), py \in r.y..(r.y + r.h - 1)}

\* the encodings the specification counts as pseudo-encodings
SpecPseudoEncodings ==
    {rfbEncodingPointerPos, rfbEncodingKeyboardLedState, rfbEncodingNewFBSize,
     rfbEncodingSupportedMessages, rfbEncodingSupportedEncodings,
     rfbEncodingServerIdentity, rfbEncodingXCursor, rfbEncodingRichCursor}

SpecReal(r) == r.encoding \notin SpecPseudoEncodings

\* the rectangle lies within a framebuffer of fbWidth x fbHeight pixels
Within(r, fbWidth, fbHeight) ==
    /\ r.x >= 0
    /\ r.y >= 0
    /\ r.x + r.w <= fbWidth
    /\ r.y + r.h <= fbHeight

\* the rectangle has nonzero area and lies wholly outside the framebuffer
WhollyOutside(r) ==
    /\ r.w > 0
    /\ r.h > 0
    /\ (r.x >= m_framebufferWidth \/ r.y >= m_framebufferHeight)

NotWhollyOutside(r) == ~WhollyOutside(r)

\* the updated rectangle the engine would expose for the given rectangles
UpdatedRectFor(rects) ==
    receiveFramebufferUpdateMessage(
        [Cur EXCEPT !.sockIn = UpdateMsg(rects)]).m_lastUpdatedRect

\* C13: updated region.  After a FramebufferUpdate is fully consumed, the
\* updated region exposed to the caller covers exactly the pixels of the
\* message's real (non-pseudo) rectangles that lie within the current
\* geometry, and no other pixel.
C13_UpdatedRegion ==
    [][\A k \in 1..Len(Units) :
          UpdateConsumed(k)
              => Pixels(m_lastUpdatedRect') =
                     UNION {Pixels(RectsOfUnit(k)[i]) :
                               i \in {j \in 1..Len(RectsOfUnit(k)) :
                                         /\ SpecReal(RectsOfUnit(k)[j])
                                         /\ Within(RectsOfUnit(k)[j],
                                                   m_framebufferWidth,
                                                   m_framebufferHeight)}}]_vars

\* C14: pseudo-encoded rectangles never contribute to the updated region.
\* After an update is consumed the updated rectangle is the one the same
\* update would give without its pseudo-encoded rectangles (PointerPos,
\* KeyboardLedState, NewFBSize, SupportedMessages, SupportedEncodings,
\* ServerIdentity, XCursor, RichCursor).
C14_PseudoNoContribution ==
    [][\A k \in 1..Len(Units) :
          UpdateConsumed(k)
              => m_lastUpdatedRect' =
                     UpdatedRectFor(SelectSeq(RectsOfUnit(k), SpecReal))]_vars

\* C15: defensive clipping.  A rectangle with nonzero area lying wholly
\* outside the current geometry (x >= width or y >= height) does not
\* contribute: the updated rectangle is the one the update gives without
\* such rectangles; and after any FramebufferUpdate is consumed the updated
\* rectangle lies within (0, 0, width, height) of the geometry in force
\* during the parse.
C15_DefensiveClipping ==
    [][/\ (MessageCall /\ ret' = TRUE)
            => \A k \in 1..Len(Units) :
                  UpdateConsumed(k)
                      => m_lastUpdatedRect' =
                             UpdatedRectFor(SelectSeq(RectsOfUnit(k),
                                                      NotWhollyOutside))
       /\ (/\ MessageCall
           /\ sockOpen
           /\ Len(sockIn) > 0
           /\ sockIn[1] = rfbFramebufferUpdate
           /\ ret' = TRUE)
              => (/\ Within(m_lastUpdatedRect', m_framebufferWidth,
                            m_framebufferHeight)
                  /\ Within(m_lastUpdatedRect', m_framebufferWidth',
                            m_framebufferHeight'))]_vars

\* an update whose two Raw rectangles are both outside the 4 x 3
\* framebuffer, one to the right and one below, was consumed after another
\* update had left a non-empty updated rectangle
C15_Witness ==
    /\ op = "receiveMessage"
    /\ ret = TRUE
    /\ Len(sent) = 2
    /\ sent[1] = UpdateMsg(<<RectOf(0, 0, 1, 1, rfbEncodingRaw, <<7>>),
                             RectOf(2, 2, 1, 1, rfbEncodingRaw, <<8>>)>>)
    /\ sent[2] = UpdateMsg(<<RectOf(5, 0, 1, 1, rfbEncodingRaw, <<7>>),
                             RectOf(0, 3, 1, 1, rfbEncodingRaw, <<8>>)>>)
    /\ consumed = EndOf(Units, Len(Units))
    /\ m_framebufferWidth = 4
    /\ m_framebufferHeight = 3
    /\ m_lastUpdatedRect = NullRect

\* after a resize to 2 x 1, of two Raw rectangles only the one inside the
\* new geometry was counted
C15_AfterResize ==
    /\ op = "receiveMessage"
    /\ ret = TRUE
    /\ Len(sent) = 2
    /\ sent[1][1] = rfbResizeFrameBuffer
    /\ consumed = EndOf(Units, Len(Units))
    /\ m_framebufferWidth = 2
    /\ m_lastUpdatedRect = [x |-> 0, y |-> 0, w |-> 1, h |-> 1]

\* a receiveMessage() call made with a ResizeFrameBuffer message type at the
\* front of the receive buffer
ResizeCall ==
    /\ MessageCall
    /\ sockOpen
    /\ Len(sockIn) > 0
    /\ sockIn[1] = rfbResizeFrameBuffer

\* the call consumed the 6-byte message and took over its width and height
ResizeDone ==
    /\ ret' = TRUE
    /\ consumed' = consumed + 6
    /\ sockIn' = Drop(sockIn, 6)
    /\ m_framebufferWidth' = sockIn[3] * 256 + sockIn[4]
    /\ m_framebufferHeight' = sockIn[5] * 256 + sockIn[6]

\* the call consumed nothing and left the geometry alone
ResizeNotDone ==
    /\ ret' = FALSE
    /\ consumed' = consumed
    /\ sockIn' = sockIn
    /\ m_framebufferWidth' = m_framebufferWidth
    /\ m_framebufferHeight' = m_framebufferHeight

\* C16 as stated: with a complete ResizeFrameBuffer message buffered in
\* state Running, the call consumes exactly that message, returns true and
\* width and height are the message's big-endian fields; with an
\* incomplete message geometry is unchanged and nothing is consumed.
C16_Resize ==
    [][ResizeCall
           => IF Len(sockIn) >= 6 THEN ResizeDone ELSE ResizeNotDone]_vars

\* C16 amended: the same, provided no more than MaximumMessageSize bytes
\* are buffered; with more bytes buffered the transport is closed, nothing
\* is consumed and the geometry is unchanged.
C16_ResizeWithinMaximum ==
    [][ResizeCall
           => IF Len(sockIn) > MaximumMessageSize
              THEN ResizeNotDone /\ ~sockOpen'
              ELSE IF Len(sockIn) >= 6
              THEN ResizeDone /\ sockOpen'
              ELSE ResizeNotDone /\ sockOpen']_vars

\* a resize to 258 x 7 was consumed while a second message was buffered
\* behind it
C16_Witness ==
    /\ op = "receiveMessage"
    /\ ret = TRUE
    /\ m_lastMessage = <<rfbResizeFrameBuffer, 0, 1, 2, 0, 7>>
    /\ m_framebufferWidth = 258
    /\ m_framebufferHeight = 7
    /\ Len(sockIn) > 0

\* C17: NewFBSize mutates geometry.  When a FramebufferUpdate containing a
\* NewFBSize pseudo-rectangle whose width and height differ from the
\* current geometry is consumed, the geometry is no longer the one held
\* before the message.
C17_NewFBSizeMutatesGeometry ==
    [][\A k \in 1..Len(Units) :
          (/\ UpdateConsumed(k)
           /\ \E i \in 1..Len(RectsOfUnit(k)) :
                 /\ RectsOfUnit(k)[i].encoding = rfbEncodingNewFBSize
                 /\ <<RectsOfUnit(k)[i].w, RectsOfUnit(k)[i].h>>
                        # <<m_framebufferWidth, m_framebufferHeight>>)
              => <<m_framebufferWidth', m_framebufferHeight'>>
                     # <<m_framebufferWidth, m_framebufferHeight>>]_vars

\* C18: the pixel format is replaceable.  After a successful
\* setPixelFormat(f) the engine's own pixel format, whose bitsPerPixel
\* sizes the payloads of later rectangles, is f.
C18_PixelFormatReplaced ==
    [][\A f \in PixelFormats :
          (SetPixelFormat(f) /\ ret' = TRUE)
              => m_pixelFormat'[1] = f.bitsPerPixel]_vars

\* C19: last-message buffer.  A receiveMessage() call that returns false
\* and one that consumes a FramebufferUpdate leave the last-message buffer
\* as it was; one that consumes any other message stores the raw bytes of
\* that message in it.
C19_LastMessage ==
    [][(MessageCall /\ sockOpen /\ Len(sockIn) > 0)
           => /\ ret' = FALSE => m_lastMessage' = m_lastMessage
              /\ (ret' = TRUE /\ sockIn[1] = rfbFramebufferUpdate)
                    => m_lastMessage' = m_lastMessage
              /\ (ret' = TRUE /\ sockIn[1] # rfbFramebufferUpdate)
                    => m_lastMessage' = SubSeq(sockIn, 1, consumed' - consumed)]_vars

\* C20: setEncodings capacity.  On an open transport, a list with more
\* than MAX_ENCODINGS entries makes setEncodings return false and write
\* nothing; a list with at most MAX_ENCODINGS entries makes it write the
\* 4-byte header (type 2, one reserved byte, big-endian count equal to the
\* list length) followed by exactly that many 4-byte big-endian encoding
\* identifiers in the list's order.
\* The transport is one that accepts writes; refused writes are C22's.
C20_SetEncodingsCapacity ==
    [][\A l \in EncodingLists :
          (op' = "setEncodings" /\ sockOpen /\ writable /\ SetEncodings(l))
              => IF Len(l) > MAX_ENCODINGS
                 THEN ret' = FALSE /\ sockOut' = sockOut
                 ELSE /\ ret' = TRUE
                      /\ Len(sockOut') = Len(sockOut) + 4 + 4 * Len(l)
                      /\ SubSeq(sockOut', 1, Len(sockOut)) = sockOut
                      /\ sockOut'[Len(sockOut) + 1] = 2
                      /\ sockOut'[Len(sockOut) + 2] = 0
                      /\ sockOut'[Len(sockOut) + 3] * 256
                             + sockOut'[Len(sockOut) + 4] = Len(l)
                      /\ \A i \in 1..Len(l) :
                            BE32(sockOut', Len(sockOut) + 4 * i + 1) = l[i]]_vars

\* a list of exactly MAX_ENCODINGS entries was written
C20_Witness ==
    /\ op = "setEncodings"
    /\ ret = TRUE
    /\ cmds = 1
    /\ Len(sockOut) = sz_rfbProtocolVersionMsg + 2 + 4 + 4 * MAX_ENCODINGS
    /\ sockOut[sz_rfbProtocolVersionMsg + 3] = rfbSetEncodings
    /\ sockOut[sz_rfbProtocolVersionMsg + 6] = MAX_ENCODINGS

\* a list of MAX_ENCODINGS + 1 entries was refused
C20_Refused ==
    /\ op = "setEncodings"
    /\ ret = FALSE
    /\ sockOpen
    /\ cmds = 1
    /\ sockOut = scn.ver \o <<1, 1>>

(***************************************************************************)
(* Update requests.                                                        *)
(***************************************************************************)
\* the units the engine has consumed that set the geometry: the server-init
\* message and the ResizeFrameBuffer messages
GeometryUnits ==
    {k \in 1..Len(Units) :
        /\ EndOf(Units, k) <= consumed
        /\ \/ k = Len(HandshakeUnits(scn))
           \/ k > Len(HandshakeUnits(scn)) /\ Units[k][1] = rfbResizeFrameBuffer}

\* width and height, as two big-endian bytes each, of the geometry unit
\* consumed last
CurrentGeometryBytes ==
    LET k == SetMax(GeometryUnits)
    IN  IF k = Len(HandshakeUnits(scn)) THEN SubSeq(Units[k], 1, 4)
        ELSE SubSeq(Units[k], 3, 6)

\* C21: update-request geometry.  requestFramebufferUpdate(incremental)
\* writes one 10-byte request: type 3, the incremental flag as 1 or 0,
\* x = 0, y = 0, and the width and height of the server-init or
\* ResizeFrameBuffer message consumed last before the call, whatever the
\* interleaving with receiveMessage(); when the write is not accepted the
\* transport is closed.
C21_RequestFramebufferUpdate ==
    [][\A incremental \in BOOLEAN :
          (/\ op' = "requestFramebufferUpdate"
           /\ sockOpen
           /\ GeometryUnits # {}
           /\ RequestFramebufferUpdate(incremental))
              => IF writable
                 THEN /\ sockOut' = sockOut \o <<3, IF incremental THEN 1 ELSE 0>>
                                         \o <<0, 0, 0, 0>> \o CurrentGeometryBytes
                      /\ Len(sockOut') = Len(sockOut) + sz_rfbFramebufferUpdateRequestMsg
                      /\ sockOpen'
                 ELSE ~sockOpen' /\ sockOut' = sockOut]_vars

\* a request was written after a resize to 2 x 1 had been consumed
C21_Witness ==
    /\ op = "requestFramebufferUpdate"
    /\ sockOpen
    /\ Len(sent) = 1
    /\ sent[1][1] = rfbResizeFrameBuffer
    /\ consumed = EndOf(Units, Len(Units))
    /\ SubSeq(sockOut, Len(sockOut) - 3, Len(sockOut)) = <<0, 2, 0, 1>>


(***************************************************************************)
(* Writes that the socket refuses.                                         *)
(***************************************************************************)
\* the handshake states a successful step of which writes to the server
WritingStates == {"Protocol", "SecurityInit", "SecurityChallenge", "SecurityResult"}

\* C22: every transport write failure is fatal.  When the socket refuses
\* writes, a step of the handshake that has its whole valid unit buffered
\* (version echo, security type, challenge response, client-init) and a
\* setPixelFormat, setEncodings or requestFramebufferUpdate call that has
\* something to write close the transport, and the handshake step leaves
\* the connection state where it was.
C22_WriteFailureFatal ==
    [][(sockOpen /\ ~writable)
        => /\ (ReadCall /\ m_state \in WritingStates) => m_state' = m_state
           /\ ReadCall =>
                 \A k \in 1..Len(Units) :
                    (/\ AtUnit(k)
                     /\ m_state \in WritingStates
                     /\ ValidUnit(k)
                     /\ arrived = EndOf(Units, k)) => ~sockOpen'
           /\ op' \in {"setPixelFormat", "requestFramebufferUpdate"} => ~sockOpen'
           /\ \A l \in EncodingLists :
                 (op' = "setEncodings" /\ Len(l) <= MAX_ENCODINGS /\ SetEncodings(l))
                     => ~sockOpen']_vars


(***************************************************************************)
(* Unknown and oversized messages.                                         *)
(***************************************************************************)
\* the message types receiveMessage() dispatches on
KnownMessageTypes ==
    {rfbFramebufferUpdate, rfbSetColourMapEntries, rfbBell, rfbServerCutText,
     rfbResizeFrameBuffer, rfbXvp}

\* updates in which the parser reaches a rectangle of an unknown encoding
UnknownEncodingMsgs == {FbUpdate(1) \o Rect(0, 0, 1, 1, 3), UnknownEncodingMsg}

\* the call closed the transport, returned false and changed nothing else
FatalCall ==
    /\ ~sockOpen'
    /\ ret' = FALSE
    /\ consumed' = consumed
    /\ sockIn' = sockIn
    /\ EngineUnchanged

\* C23: unknown kinds are fatal.  In state Running, receiveMessage() on a
\* buffer whose first byte is none of the known message types, and on a
\* buffered FramebufferUpdate in which a rectangle header names an
\* unsupported encoding, closes the transport, returns false, consumes no
\* byte and leaves state, geometry, last message and updated rectangle
\* unchanged.
C23_UnknownKindsFatal ==
    [][(MessageCall /\ sockOpen /\ Len(sockIn) > 0)
        => /\ sockIn[1] \notin KnownMessageTypes => FatalCall
           /\ \A k \in 1..Len(Units) :
                 (AtUnit(k) /\ UnitBuffered(k) /\ Units[k] \in UnknownEncodingMsgs)
                     => FatalCall]_vars

\* the update whose second rectangle has an unknown encoding was buffered
\* whole and the transport is closed
C23_Witness ==
    /\ op = "receiveMessage"
    /\ ~sockOpen
    /\ sent = <<UnknownEncodingMsg>>
    /\ sockIn = UnknownEncodingMsg
    /\ m_lastUpdatedRect = NullRect


\* C24: oversized messages are rejected at once.  In state Running, a
\* message whose header declares a payload that takes its total size beyond
\* MaximumMessageSize (a cut text's length, a Zlib rectangle's compressed
\* length) makes the first receiveMessage() call that finds the header
\* buffered close the transport and return false.
C24_OversizedRejected ==
    [][(MessageCall /\ sockOpen)
        => \A k \in 1..Len(Units) :
              (AtUnit(k) /\ Units[k] \in OversizedMsgs /\ UnitBuffered(k))
                  => (~sockOpen' /\ ret' = FALSE)]_vars


(***************************************************************************)
(* Message boundaries in state Running.                                    *)
(***************************************************************************)
\* C25: in-order, boundary-preserving consumption.  In state Running, a
\* receiveMessage() call made with the read cursor at the start of a
\* server message leaves the cursor there or moves it to the end of that
\* one message; made with every message sent already consumed, it leaves
\* the cursor where it is.  The messages consumed are then a prefix of the
\* messages sent, and no byte of a later message is taken while an earlier
\* one is incomplete.
C25_BoundaryPreserved ==
    [][(MessageCall /\ sockOpen)
        => /\ \A k \in 1..Len(Units) :
                 AtUnit(k) => (consumed' = consumed \/ consumed' = EndOf(Units, k))
           /\ consumed = EndOf(Units, Len(Units)) => consumed' = consumed]_vars


(***************************************************************************)
(* Progress of the handshake.                                              *)
(***************************************************************************)
\* The owner calls start() and then read() whenever a call can still change
\* something, in particular after every arrival; bytes in flight arrive.
LiveSpec ==
    /\ Init
    /\ [][Next]_vars
    /\ WF_vars(Start)
    /\ WF_vars(Read)
    /\ WF_vars(\E k \in ChunkSizes(Len(pending)) : Arrive(k))

\* C26: retry succeeds.  For a valid handshake stream from a server that
\* stays connected, delivered in arbitrary chunks, with read() called again
\* after every arrival and every byte arriving in the end, the state
\* eventually is Running.
C26_RetrySucceeds ==
    (ValidScript(scn) /\ ~scn.hangup) ~> (m_state = "Running")


(***************************************************************************)
(* Framebuffer updates: consumption.                                       *)
(***************************************************************************)
\* C27: a FramebufferUpdate is consumed whole or not at all.  With a
\* well-formed update at the read cursor, receiveMessage() either returns
\* false, having consumed nothing and left the updated rectangle as it was
\* (always so when the update is not fully buffered), or returns true,
\* having consumed exactly the update's bytes, 4 plus 12 and the payload
\* for each rectangle, with the bytes behind it left in the buffer; a fully
\* buffered update is consumed unless the buffer exceeds MaximumMessageSize.
C27_UpdateAllOrNothing ==
    [][(MessageCall /\ sockOpen)
        => \A k \in 1..Len(Units) :
              (AtUnit(k) /\ ValidUnit(k) /\ Units[k][1] = rfbFramebufferUpdate)
                  => /\ ~UnitBuffered(k) => ret' = FALSE
                     /\ ret' = FALSE
                           => (/\ consumed' = consumed
                               /\ sockIn' = sockIn
                               /\ m_lastUpdatedRect' = m_lastUpdatedRect)
                     /\ ret' = TRUE
                           => (/\ consumed' = EndOf(Units, k)
                               /\ sockIn' = Drop(sockIn, Len(Units[k])))
                     /\ (UnitBuffered(k) /\ Len(sockIn) <= MaximumMessageSize)
                           => ret' = TRUE]_vars

\* an update of two Raw rectangles was consumed while a second message was
\* buffered behind it, which stayed in the buffer
C27_Witness ==
    /\ op = "receiveMessage"
    /\ ret = TRUE
    /\ Len(sent) = 2
    /\ Len(sent[1]) = 4 + 2 * (sz_rfbFramebufferUpdateRectHeader + 1)
    /\ sent[1][1] = rfbFramebufferUpdate
    /\ consumed = EndOf(Units, Len(Units) - 1)
    /\ sockIn = sent[2]


\* C28: the LastRect marker ends an update.  An update that announces three
\* rectangles and carries one CopyRect rectangle followed by a LastRect
\* rectangle header is consumed, once buffered, as exactly 4 + (12 + 4) +
\* 12 bytes: the loop stops at the marker, no payload and no further
\* rectangle header is required, and the marker's rectangle adds nothing to
\* the updated region, which is the CopyRect rectangle alone.
C28_LastRect ==
    [][(MessageCall /\ sockOpen)
        => \A k \in 1..Len(Units) :
              (/\ AtUnit(k)
               /\ Units[k] = LastRectMsg
               /\ UnitBuffered(k)
               /\ Len(sockIn) <= MaximumMessageSize)
                  => (/\ ret' = TRUE
                      /\ consumed' = consumed + 4 + (12 + 4) + 12
                      /\ sockIn' = Drop(sockIn, 4 + (12 + 4) + 12)
                      /\ m_lastUpdatedRect' = [x |-> 1, y |-> 1, w |-> 2, h |-> 1])]_vars

\* the update ended by the marker was consumed
C28_Witness ==
    /\ op = "receiveMessage"
    /\ ret = TRUE
    /\ sent = <<LastRectMsg>>
    /\ consumed = EndOf(Units, Len(Units))
    /\ m_lastMessage = LastRectMsg
    /\ m_lastUpdatedRect = [x |-> 1, y |-> 1, w |-> 2, h |-> 1]


(***************************************************************************)
(* Payload sizes.                                                          *)
(***************************************************************************)
\* n = w * h * bytesPerPixel over the integers, tested by division so that
\* no product is formed
IsProduct(n, w, h, bytesPerPixel) ==
    IF w = 0 \/ h = 0 THEN n = 0
    ELSE /\ n % bytesPerPixel = 0
         /\ (n \div bytesPerPixel) % w = 0
         /\ (n \div bytesPerPixel) \div w = h

\* unit k is (the start of) an update with a single Raw rectangle
SingleRawUpdate(k) ==
    /\ Len(Units[k]) >= sz_rfbFramebufferUpdateMsg + sz_rfbFramebufferUpdateRectHeader
    /\ Units[k][1] = rfbFramebufferUpdate
    /\ BE16(Units[k], 3) = 1
    /\ BE32(Units[k], 13) = rfbEncodingRaw

\* C29: Raw payload size without wraparound.  When receiveMessage()
\* consumes an update with one Raw rectangle of width w and height h, the
\* payload bytes it has required and consumed behind the 4 + 12 header
\* bytes are w * h * bytesPerPixel, the product over the integers, for the
\* pixel format of the server-init message.
C29_RawSizeExact ==
    [][(MessageCall /\ sockOpen /\ ret' = TRUE)
        => \A k \in 1..Len(Units) :
              (AtUnit(k) /\ SingleRawUpdate(k))
                  => IsProduct(consumed' - consumed - 16, BE16(Units[k], 9),
                               BE16(Units[k], 11), scn.bpp \div 8)]_vars


\* unit k is an update with a single RRE rectangle
SingleRREUpdate(k) ==
    /\ Len(Units[k]) >= sz_rfbFramebufferUpdateMsg
                            + sz_rfbFramebufferUpdateRectHeader + sz_rfbRREHeader
    /\ Units[k][1] = rfbFramebufferUpdate
    /\ BE16(Units[k], 3) = 1
    /\ BE32(Units[k], 13) = rfbEncodingRRE

\* the big-endian subrectangle count of such an update
SubrectsOf(k) == BE32(Units[k], 17)

\* bytes buffered behind the 4 + 12 + 4 header bytes of such an update
BehindSubHeader == Len(sockIn) - 20

RRESize(count, bytesPerPixel) ==
    WrapAdd(bytesPerPixel, WrapMul(count, bytesPerPixel + 8))

HextileUpdate(k) == scn.msgSet = "hextile" /\ k > Len(HandshakeUnits(scn))

\* C31: Hextile sizing.  An update with one Hextile rectangle, sent as
\* ceil(w/16) x ceil(h/16) tiles row by row with the edge tiles clipped,
\* each tile a sub-encoding byte followed by w x h x bytesPerPixel bytes
\* when the raw bit is set (whatever the other bits), and otherwise by the
\* background pixel, the foreground pixel and a count byte with count x
\* (2 + bytesPerPixel) or count x 2 bytes as the bits say, is consumed by
\* receiveMessage() exactly when all of it is buffered, and then exactly to
\* its end; a rectangle with w = 0 or h = 0 has no payload.
C31_HextileSizing ==
    [][(MessageCall /\ sockOpen)
        => \A k \in 1..Len(Units) :
              (AtUnit(k) /\ HextileUpdate(k))
                  => IF UnitBuffered(k)
                     THEN ret' = TRUE /\ consumed' = EndOf(Units, k)
                     ELSE ret' = FALSE /\ consumed' = consumed /\ sockOpen']_vars

\* the rectangle of 18 x 17 one-byte pixels, four tiles of which the third
\* and fourth are raw, was consumed
C31_Witness ==
    /\ op = "receiveMessage"
    /\ ret = TRUE
    /\ sent = <<HextileMsg(18, 17, <<<<0, 0>>, <<2, 0>>, <<1, 0>>, <<1, 0>>>>, 1)>>
    /\ consumed = EndOf(Units, Len(Units))
    /\ Len(m_lastMessage) = 16 + 1 + 2 + 17 + 3

\* unit k is an update with one cursor-shape rectangle
CursorUpdate(k) == scn.msgSet = "cursor" /\ k > Len(HandshakeUnits(scn))

\* C32: cursor-shape sizing.  An update with one XCursor rectangle, its
\* payload the colour block and two bitmaps of ((w + 7) / 8) x h bytes, or
\* with one RichCursor rectangle, its payload w x h x bytesPerPixel pixel
\* bytes and one bitmask of ((w + 7) / 8) x h bytes, and in both cases no
\* payload at all when w x h = 0, is consumed by receiveMessage() exactly
\* when all of it is buffered, and then exactly to its end.
C32_CursorSizing ==
    [][(MessageCall /\ sockOpen)
        => \A k \in 1..Len(Units) :
              (AtUnit(k) /\ CursorUpdate(k))
                  => IF UnitBuffered(k)
                     THEN ret' = TRUE /\ consumed' = EndOf(Units, k)
                     ELSE ret' = FALSE /\ consumed' = consumed /\ sockOpen']_vars

\* an XCursor rectangle of 9 x 2 pixels was consumed: 6 colour bytes and
\* two bitmaps of 2 x 2 bytes
C32_Witness ==
    /\ op = "receiveMessage"
    /\ ret = TRUE
    /\ scn.msgSet = "cursor"
    /\ Len(sent) = 1
    /\ BE32(sent[1], 13) = rfbEncodingXCursor
    /\ consumed = EndOf(Units, Len(Units))
    /\ Len(m_lastMessage) = 16 + 6 + 4 + 4

(***************************************************************************)
(* Length-prefixed messages and the size guard.                            *)
(***************************************************************************)
\* C33: length-prefixed Running messages.  A receiveMessage() call made at
\* a message boundary that returns true has consumed, for a
\* SetColourMapEntries message, its 6-byte header and 6 x nColours bytes;
\* for a ServerCutText message, its 8-byte header and length bytes, nColours
\* and length being the big-endian header fields; for Bell 1 byte and for
\* Xvp 4 bytes; and all of those bytes were buffered before the call.
\* (A length field read as a 32-bit pattern below 0 stands for a length of
\* 2^31 or more, which no count of consumed bytes equals.)
C33_LengthPrefixed ==
    [][(MessageCall /\ sockOpen /\ ret' = TRUE)
        => \A k \in 1..Len(Units) :
              AtUnit(k)
                  => LET n == consumed' - consumed
                     IN  /\ n <= Len(sockIn)
                         /\ sockIn[1] = rfbSetColourMapEntries
                               => n = sz_rfbSetColourMapEntriesMsg + 6 * BE16(sockIn, 5)
                         /\ sockIn[1] = rfbServerCutText
                               => (/\ BE32(sockIn, 5) >= 0
                                   /\ n - sz_rfbServerCutTextMsg = BE32(sockIn, 5))
                         /\ sockIn[1] = rfbBell => n = sz_rfbBellMsg
                         /\ sockIn[1] = rfbXvp => n = sz_rfbXvpMsg]_vars

\* C34: buffer-abuse guard.  A receiveMessage() call made with more than
\* MaximumMessageSize bytes buffered closes the transport, returns false
\* and consumes and changes nothing, whatever the bytes are; with
\* MaximumMessageSize bytes or fewer buffered the guard does not fire: a
\* supported message at the read cursor leaves the transport open, and is
\* consumed if it is complete.
C34_BufferGuard ==
    [][(MessageCall /\ sockOpen)
        => IF Len(sockIn) > MaximumMessageSize
           THEN FatalCall
           ELSE \A k \in 1..Len(Units) :
                   (AtUnit(k) /\ ValidUnit(k))
                       => (sockOpen' /\ (UnitBuffered(k) => ret' = TRUE))]_vars

\* the guard fired on a buffer of supported messages
C34_Witness ==
    /\ op = "receiveMessage"
    /\ ~sockOpen
    /\ Len(sockIn) > MaximumMessageSize
    /\ Len(sent) >= 2
    /\ \A i \in 1..Len(sent) : sent[i] \in ValidRunMsgs \cup UpdateRunMsgs
    /\ consumed = Len(HandshakeStream(scn))

\* a message was consumed from a buffer of exactly MaximumMessageSize bytes
C34_AtMaximum ==
    /\ op = "receiveMessage"
    /\ ret = TRUE
    /\ sockOpen
    /\ Len(sockIn) + Len(m_lastMessage) = MaximumMessageSize

(***************************************************************************)
(* Work done by one call.                                                  *)
(***************************************************************************)
\* C35: one unit per call.  A read() or receiveMessage() call moves the
\* connection state by at most one step, and, made with the read cursor at
\* the start of a handshake unit or Running-state message, it takes no byte
\* beyond the end of that unit, however many later units are buffered
\* already.  (Every call terminates: the loops of the code run over a
\* 16-bit rectangle count and over the tiles of one rectangle.)
C35_OneUnitPerCall ==
    [][(ParseCall /\ sockOpen)
        => /\ m_state' = m_state \/ <<m_state, m_state'>> \in ForwardEdges
           /\ consumed' >= consumed
           /\ consumed' > consumed
                 => \A k \in 1..Len(Units) :
                       AtUnit(k) => consumed' <= EndOf(Units, k)]_vars

\* read() took the security types and left the security result and the
\* server-init message, buffered behind them, in the buffer
C35_Witness ==
    /\ op = "read"
    /\ ret = TRUE
    /\ m_state = "SecurityResult"
    /\ consumed = Len(scn.ver) + Len(scn.sec)
    /\ Len(sockIn) >= 4 + sz_rfbServerInitMsg

\* receiveMessage() took one message and left the next in the buffer
C35_SecondMessageLeft ==
    /\ op = "receiveMessage"
    /\ ret = TRUE
    /\ Len(sent) = 2
    /\ consumed = EndOf(Units, Len(Units) - 1)
    /\ sockIn = sent[2]
    /\ sent[1][1] = rfbBell

(***************************************************************************)
(* What the handshake writes.                                              *)
(***************************************************************************)
\* the bytes a read() call has appended to what was written before
WrittenByCall == SubSeq(sockOut', Len(sockOut) + 1, Len(sockOut'))

\* C36: handshake write order.  A read() call appends to the bytes written
\* so far and writes only in the call that moves the state: the 12 version
\* bytes it consumed on Protocol -> SecurityInit, the one byte 2 on
\* SecurityInit -> SecurityChallenge or the one byte 1 on SecurityInit ->
\* SecurityResult, 16 bytes on SecurityChallenge -> SecurityResult, the one
\* byte 1 on SecurityResult -> FramebufferInit, and nothing on
\* FramebufferInit -> Running, when the state stays, and when the call
\* returns false.  As the state only moves forward, each is written at most
\* once, in this order, and the 16-byte response exactly when VNC-Auth was
\* chosen.  (On a socket that refuses writes nothing is written at all.)
C36_HandshakeWriteOrder ==
    [][ReadCall
        => /\ Len(sockOut') >= Len(sockOut)
           /\ SubSeq(sockOut', 1, Len(sockOut)) = sockOut
           /\ (ret' = FALSE \/ m_state' = m_state \/ ~writable \/ ~sockOpen)
                 => sockOut' = sockOut
           /\ (ret' = TRUE /\ writable /\ m_state' # m_state)
                 => WrittenByCall =
                       CASE m_state = "Protocol" -> SubSeq(sockIn, 1, 12)
                         [] m_state' = "SecurityChallenge" -> <<rfbSecTypeVncAuth>>
                         [] m_state = "SecurityInit" -> <<rfbSecTypeNone>>
                         [] m_state = "SecurityChallenge" ->
                               rfbDes(ReferenceKey(m_vncPassword), SubSeq(sockIn, 1, 8))
                                   \o rfbDes(ReferenceKey(m_vncPassword),
                                             SubSeq(sockIn, 9, 16))
                         [] m_state = "SecurityResult" -> <<1>>
                         [] OTHER -> <<>>]_vars

\* the whole handshake with VNC authentication has been written
C36_Witness ==
    /\ op = "read"
    /\ ret = TRUE
    /\ m_state = "Running"
    /\ HasChallenge(scn)
    /\ Len(m_vncPassword) = 3
    /\ sockOut = ExpectedOut(scn, m_vncPassword)
    /\ Len(sockOut) = 12 + 1 + 16 + 1

(***************************************************************************)
(* Clipping and the frame of the updated rectangle.                        *)
(***************************************************************************)
\* the rectangles of the update that is unit k of a "clip" connection
ClipRectsOf(k) == CHOOSE rects \in ClipRectLists : Units[k] = UpdateMsg(rects)

\* the boxes of the real rectangles with area that end within width x height
BoxesWithin(rects, fbWidth, fbHeight) ==
    {[x |-> rects[i].x, y |-> rects[i].y, w |-> rects[i].w, h |-> rects[i].h] :
        i \in {j \in 1..Len(rects) :
                  /\ SpecReal(rects[j])
                  /\ rects[j].w > 0
                  /\ rects[j].h > 0
                  /\ rects[j].x + rects[j].w <= fbWidth
                  /\ rects[j].y + rects[j].h <= fbHeight}}

\* the smallest rectangle around the boxes, the null rectangle for none
BoxAround(boxes) ==
    IF boxes = {} THEN NullRect
    ELSE LET x0 == SetMin({r.x : r \in boxes})
             y0 == SetMin({r.y : r \in boxes})
         IN  [x |-> x0, y |-> y0,
              w |-> SetMax({r.x + r.w : r \in boxes}) - x0,
              h |-> SetMax({r.y + r.h : r \in boxes}) - y0]

\* C37: clipping is all-or-nothing per rectangle.  After an update of Raw
\* and NewFBSize rectangles is consumed, the updated rectangle is the box
\* around the full boxes of exactly those Raw rectangles with x + w <=
\* width and y + h <= height; a rectangle that crosses the border adds
\* nothing, not even its part inside; width and height are those held when
\* the call began, whatever a NewFBSize rectangle earlier in the message
\* says.
C37_ClipAllOrNothing ==
    [][(MessageCall /\ sockOpen /\ scn.msgSet = "clip" /\ ret' = TRUE)
        => \A k \in 1..Len(Units) :
              AtUnit(k)
                  => m_lastUpdatedRect' =
                         BoxAround(BoxesWithin(ClipRectsOf(k), m_framebufferWidth,
                                               m_framebufferHeight))]_vars

\* the update with a NewFBSize rectangle of 2 x 2 and a Raw rectangle at
\* (2, 0) of 2 x 1 pixels was consumed, and the Raw rectangle counted
C37_Witness ==
    /\ op = "receiveMessage"
    /\ ret = TRUE
    /\ scn.msgSet = "clip"
    /\ Len(sent) = 1
    /\ BE32(sent[1], 13) = rfbEncodingNewFBSize
    /\ m_lastUpdatedRect = [x |-> 2, y |-> 0, w |-> 2, h |-> 1]

\* the update with a Raw rectangle inside and one across the border was
\* consumed, and only the first counted
C37_AcrossBorder ==
    /\ op = "receiveMessage"
    /\ ret = TRUE
    /\ scn.msgSet = "clip"
    /\ Len(sent) = 1
    /\ Len(sent[1]) = 4 + 13 + 14
    /\ m_lastUpdatedRect = [x |-> 0, y |-> 0, w |-> 1, h |-> 1]

\* no rectangle of the list contributes: each is PointerPos,
\* KeyboardLedState, NewFBSize, SupportedMessages, SupportedEncodings or
\* ServerIdentity, or has no area, or ends beyond width x height
NoneContributes(rects, fbWidth, fbHeight) ==
    \A i \in 1..Len(rects) :
        \/ rects[i].encoding \in
               SpecPseudoEncodings \ {rfbEncodingXCursor, rfbEncodingRichCursor}
        \/ rects[i].w = 0
        \/ rects[i].h = 0
        \/ rects[i].x + rects[i].w > fbWidth
        \/ rects[i].y + rects[i].h > fbHeight

\* C38: frame condition of the updated rectangle.  The updated rectangle
\* changes only in a receiveMessage() call that returns true on a
\* FramebufferUpdate: every other consumed message, every handshake step,
\* every outbound command, every arrival of bytes and every update parse
\* that stops for missing data or an unsupported encoding leave it as it
\* was; and a consumed update none of whose rectangles contributes sets it
\* to the empty rectangle.
C38_UpdatedRectFrame ==
    [][/\ m_lastUpdatedRect' # m_lastUpdatedRect
            => (/\ MessageCall
                /\ ret' = TRUE
                /\ Len(sockIn) > 0
                /\ sockIn[1] = rfbFramebufferUpdate
                /\ consumed' > consumed)
       /\ (MessageCall /\ ret' = TRUE)
            => \A k \in 1..Len(Units) :
                  (/\ UpdateConsumed(k)
                   /\ NoneContributes(RectsOfUnit(k), m_framebufferWidth,
                                      m_framebufferHeight))
                      => m_lastUpdatedRect' = NullRect]_vars

\* an update of two Raw rectangles left a non-empty updated rectangle, and
\* an update of pseudo-encoded rectangles consumed after it emptied it
C38_Witness ==
    /\ op = "receiveMessage"
    /\ ret = TRUE
    /\ Len(sent) = 2
    /\ Len(sent[1]) = 4 + 2 * 13
    /\ BE32(sent[1], 13) = rfbEncodingRaw
    /\ BE16(sent[1], 5) = 0
    /\ Len(sent[2]) >= 16
    /\ BE32(sent[2], 13) = rfbEncodingKeyboardLedState
    /\ consumed = EndOf(Units, Len(Units))
    /\ m_lastUpdatedRect = NullRect


(***************************************************************************)
(* The management console (imc): MainWindow keeps track of whether the     *)
(* configuration being edited differs from the applied one.  Slots run on  *)
(* the GUI thread, one at a time; a signal of ItalcCore::config calls the  *)
(* slot connected to it before the emitting call returns.                  *)
(***************************************************************************)
\* the properties of the model: one the console rewrites itself on Windows,
\* and one that only the user edits
ConfigKeys == {"Authentication/EncodedLogonACL", "Logging/LogLevel"}

\* what a store or a file may hold: each property at a value, or not at all
StoredConfigurations == [ConfigKeys -> {"unset", "off", "on"}]

\* ItalcConfiguration::defaultConfiguration()
defaultConfiguration == [k \in ConfigKeys |-> "off"]

\* Configuration::Object::data().size()
DataSize(c) == Cardinality({k \in ConfigKeys : c[k] # "unset"})

\* a += b: the values of b are put into a
Merge(a, b) == [k \in ConfigKeys |-> IF b[k] # "unset" THEN b[k] ELSE a[k]]

\* the window and the stores it works on
Window ==
    [win32 |-> win32, m_configChanged |-> m_configChanged,
     buttonBox |-> buttonBox, widgets |-> widgets, config |-> config,
     localBackend |-> localBackend, visible |-> visible]

\* the open window after its slot `name` has returned w
Show(name, result, reply, w) ==
    /\ visible
    /\ slot' = name
    /\ outcome' = result
    /\ answer' = reply
    /\ win32' = w.win32
    /\ m_configChanged' = w.m_configChanged
    /\ buttonBox' = w.buttonBox
    /\ widgets' = w.widgets
    /\ config' = w.config
    /\ localBackend' = w.localBackend
    /\ visible' = w.visible
    /\ UNCHANGED vars

configurationChanged(w) ==
    [w EXCEPT !.buttonBox = TRUE, !.m_configChanged = TRUE]

\* ItalcCore::config has emitted configurationChanged(), or has not; the code
\* of the configuration object decides, and it is not part of the console
Signalled(w, emitted) == IF emitted THEN configurationChanged(w) ELSE w

\* reset( onlyUI )
reset(w, onlyUI, emitted) ==
    LET reloaded ==
            IF onlyUI THEN w
            ELSE Signalled([w EXCEPT !.config =
                               Merge(defaultConfiguration, w.localBackend)],
                           emitted)
        initialised ==
            Signalled([reloaded EXCEPT !.widgets = reloaded.config], emitted)
    IN  [initialised EXCEPT !.buttonBox = FALSE, !.m_configChanged = FALSE]

\* mutant: a failed apply() disables the buttons as a successful one does
applyAlwaysClearing(w, applied, acl, emitted) ==
    LET encoded ==
            IF w.win32
            THEN Signalled([w EXCEPT
                               !.config["Authentication/EncodedLogonACL"] = acl],
                           emitted)
            ELSE w
    IN  [encoded EXCEPT
            !.localBackend = IF applied THEN encoded.config ELSE @,
            !.buttonBox = FALSE, !.m_configChanged = FALSE]

\* apply(); applied is the value of ImcCore::applyConfiguration(), acl the
\* logon ACL of the system
apply(w, applied, acl, emitted) ==
    LET encoded ==
            IF w.win32
            THEN Signalled([w EXCEPT
                               !.config["Authentication/EncodedLogonACL"] = acl],
                           emitted)
            ELSE w
    IN  IF applied
        THEN [encoded EXCEPT !.localBackend = encoded.config,
                             !.buttonBox = FALSE, !.m_configChanged = FALSE]
        ELSE encoded

\* loadSettingsFromFile(); chosen is FALSE when the user cancels the file
\* dialog, loaded is what the chosen file holds
loadSettingsFromFile(w, chosen, loaded, emitted) ==
    IF ~chosen THEN w
    ELSE configurationChanged(
             reset(Signalled([w EXCEPT !.config = Merge(w.config, loaded)],
                             emitted),
                   TRUE, emitted))

\* saveSettingsToFile(); the file written is not part of the model
saveSettingsToFile(w, chosen, acl, emitted) ==
    IF ~chosen THEN w
    ELSE LET configChangedPrevious == w.m_configChanged
             encoded ==
                 IF w.win32
                 THEN Signalled([w EXCEPT
                                    !.config["Authentication/EncodedLogonACL"] = acl],
                                emitted)
                 ELSE w
         IN  [encoded EXCEPT !.m_configChanged = configChangedPrevious,
                             !.buttonBox = configChangedPrevious]

\* manageACLs(); on other systems the logon group editor works on the
\* configuration object
manageACLs(w, acl, emitted) ==
    IF w.win32
    THEN IF acl # w.config["Authentication/EncodedLogonACL"]
         THEN configurationChanged(w)
         ELSE w
    ELSE Signalled(w, emitted)

\* closeEvent( closeEvent ); reply is the button the user answers the
\* question with, which is asked only with unsaved settings
closeEvent(w, reply, emitted) ==
    IF w.m_configChanged /\ reply # "Yes"
    THEN w
    ELSE [reset(w, FALSE, emitted) EXCEPT !.visible = FALSE]

\* MainWindow::MainWindow(): the signal of the configuration object is
\* connected at the end, behind reset()
MainWindow(stored, onWin32) ==
    LET w == reset([win32 |-> onWin32, m_configChanged |-> FALSE,
                    buttonBox |-> TRUE, widgets |-> defaultConfiguration,
                    config |-> defaultConfiguration, localBackend |-> stored,
                    visible |-> TRUE],
                   FALSE, FALSE)
    IN  IF DataSize(stored) < DataSize(w.config)
        THEN configurationChanged(w)
        ELSE w

\* the console started on a computer with some stored configuration; no
\* engine is in use
ConsoleInit ==
    /\ Constructed(<<DefaultScript, NoPassword>>)
    /\ slot = "MainWindow"
    /\ outcome = "none"
    /\ answer = "none"
    /\ \E stored \in StoredConfigurations, onWin32 \in BOOLEAN :
          LET w == MainWindow(stored, onWin32)
          IN  /\ win32 = w.win32
              /\ m_configChanged = w.m_configChanged
              /\ buttonBox = w.buttonBox
              /\ widgets = w.widgets
              /\ config = w.config
              /\ localBackend = w.localBackend
              /\ visible = w.visible

\* what the user does with the open window: edits a property in its widget,
\* whose signal sets the property of the configuration object; clicks Apply
\* or Reset in the button box, which takes clicks only while it is enabled;
\* loads or saves a file; manages the logon ACL; closes the window
ConsoleNext ==
    \/ \E k \in ConfigKeys, v \in {"off", "on"} :
          /\ v # widgets[k]
          /\ Show("setProperty", "none", "none",
                  configurationChanged([Window EXCEPT !.widgets[k] = v,
                                                        !.config[k] = v]))
    \/ \E applied, emitted \in BOOLEAN, acl \in {"off", "on"} :
          /\ buttonBox
          /\ Show("apply", IF applied THEN "applied" ELSE "failed", "none",
                  apply(Window, applied, acl, emitted))
    \/ \E emitted \in BOOLEAN :
          /\ buttonBox
          /\ Show("reset", "none", "none", reset(Window, FALSE, emitted))
    \/ \E chosen, emitted \in BOOLEAN, loaded \in StoredConfigurations :
          Show("loadSettingsFromFile",
               IF chosen THEN "chosen" ELSE "cancelled", "none",
               loadSettingsFromFile(Window, chosen, loaded, emitted))
    \/ \E chosen, emitted \in BOOLEAN, acl \in {"off", "on"} :
          Show("saveSettingsToFile",
               IF chosen THEN "chosen" ELSE "cancelled", "none",
               saveSettingsToFile(Window, chosen, acl, emitted))
    \/ \E emitted \in BOOLEAN, acl \in {"off", "on"} :
          Show("manageACLs", "none", "none", manageACLs(Window, acl, emitted))
    \/ \E emitted \in BOOLEAN,
          reply \in IF m_configChanged THEN {"Yes", "No"} ELSE {"none"} :
          LET w == closeEvent(Window, reply, emitted)
          IN  Show("closeEvent",
                   IF w.visible THEN "ignored" ELSE "accepted", reply, w)

ConsoleSpec == ConsoleInit /\ [][ConsoleNext]_<<vars, console>>

\* C39: unsaved-changes tracking of the management console.  After reset(),
\* a successful apply(), a property set (configurationChanged()),
\* loadSettingsFromFile() and saveSettingsToFile() with a chosen file the
\* button box is enabled exactly if m_configChanged is true;
\* saveSettingsToFile() and a failed apply() leave m_configChanged as it was;
\* closeEvent accepts the close only if m_configChanged was false or the
\* user answered Yes.
C39_UnsavedChanges ==
    [][/\ (\/ slot' \in {"reset", "setProperty", "manageACLs"}
           \/ slot' = "apply" /\ outcome' = "applied"
           \/ slot' \in {"loadSettingsFromFile", "saveSettingsToFile"}
              /\ outcome' = "chosen")
            => (buttonBox' <=> m_configChanged')
       /\ slot' = "saveSettingsToFile" => m_configChanged' = m_configChanged
       /\ (slot' = "apply" /\ outcome' = "failed")
            => m_configChanged' = m_configChanged
       /\ (slot' = "closeEvent" /\ outcome' = "accepted")
            => (~m_configChanged \/ answer' = "Yes")
       /\ slot' = "reset" => ~m_configChanged'
       /\ (slot' = "apply" /\ outcome' = "applied") => ~m_configChanged'
       /\ slot' = "setProperty" => m_configChanged'
       /\ (slot' = "loadSettingsFromFile" /\ outcome' = "chosen")
            => m_configChanged']_console

\* apply() has failed on Windows with unsaved settings, after it rewrote the
\* logon ACL of the configuration
C39_Witness ==
    /\ slot = "apply"
    /\ outcome = "failed"
    /\ win32
    /\ m_configChanged
    /\ buttonBox
    /\ config # widgets

\* a file was saved with nothing to apply, and the buttons stayed disabled
C39_SavedUnchanged ==
    /\ slot = "saveSettingsToFile"
    /\ outcome = "chosen"
    /\ ~m_configChanged
    /\ ~buttonBox

\* the user refused to quit with unsaved settings
C39_CloseIgnored ==
    /\ slot = "closeEvent"
    /\ outcome = "ignored"
    /\ answer = "No"
    /\ visible
    /\ m_configChanged

====
